---------------------------- MODULE Spec2Model ----------------------------
(***************************************************************************)
(* Model of the slovo agent runtime: the orchestrator's process_message    *)
(* pipeline (agents/orchestrator.py), the executor's step loop             *)
(* (agents/executor.py), the tool manifest lifecycle (tools/repository.py, *)
(* console_orchestrator.py), the memory subsystem (memory/), the sandbox    *)
(* manager and its execution log (tools/sandbox.py) and the ephemeral turn *)
(* store (memory/redis_repository.py).                                     *)
(*                                                                         *)
(* Confidences are integers in hundredths (1.0 = 100).                     *)
(***************************************************************************)
EXTENDS Integers, Sequences, FiniteSets, TLC

(***************************************************************************)
(* Bounds of the model.                                                    *)
(***************************************************************************)
MaxRequests == 2
MaxPlanLen == 1
MaxExecutions == 2       \* execute_tool calls made
MaxExecutedSteps == 3    \* steps of a plan given to the executor on its own
MaxVolumeCalls == 6      \* _get_or_create_volume calls made for the tool
MaxClock == 3            \* last reading of the clock
ExecutionTimeout == 2    \* the manifest's execution_timeout, in clock ticks

(***************************************************************************)
(* Program constants.                                                      *)
(***************************************************************************)
max_retries == 2
FastPathConfidence == 100
ClarificationConfidence == 50
ApologyConfidence == 0
SkippedVerificationConfidence == 90

Tasks == {"t1", "t2"}
Cids == {"c1", "c2"}
Tools == {"calc"}
NoTool == "none"

(***************************************************************************)
(* Utterances.  A message is described by the features of its text that    *)
(* the code inspects: the heuristic intent rules (intent.py) look at the   *)
(* start and the end of the lowered, stripped text and at the tool         *)
(* lexicon; the fast-path gate (orchestrator.py) looks for a greeting      *)
(* pattern anywhere in the text.  prefix counts the "[Clarification] "     *)
(* prefixes that _handle_clarification_response has put in front.          *)
(***************************************************************************)
Message(n, q, i, c, g, k) ==
    [name |-> n, endsQ |-> q, startsInterrogative |-> i,
     startsImperative |-> c, hasGreeting |-> g, hasToolKeyword |-> k,
     prefix |-> 0]

Messages ==
    { Message("Hello, how are you?", TRUE, FALSE, FALSE, TRUE, FALSE),
      Message("what is my name", FALSE, TRUE, FALSE, FALSE, FALSE),
      Message("please search the web", FALSE, FALSE, TRUE, FALSE, TRUE) }

NoMessage == Message("", FALSE, FALSE, FALSE, FALSE, FALSE)

\* f"[Clarification] {message}": the text no longer starts with its first
\* word; its end and the patterns it contains are unchanged.
Prefixed(m) ==
    [m EXCEPT !.prefix = @ + 1,
              !.startsInterrogative = FALSE,
              !.startsImperative = FALSE]

IntentTypes ==
    {"question", "command", "conversation", "tool_request",
     "clarification", "unknown"}

\* IntentInterpreterAgent._heuristic_interpret
HeuristicIntent(m) ==
    [type |-> IF m.endsQ \/ m.startsInterrogative THEN "question"
              ELSE IF m.startsImperative THEN "command"
              ELSE "conversation",
     requires_tool |-> m.hasToolKeyword,
     tool_hint |-> NoTool,
     hasGreeting |-> m.hasGreeting]

\* IntentInterpreterAgent._analysis_to_intent: type and requires_tool come
\* from the model's analysis, the tool hint is its first suggested tool, the
\* text is the original text.
LLMIntents(m) ==
    { [type |-> t, requires_tool |-> r, tool_hint |-> h,
       hasGreeting |-> m.hasGreeting] :
        t \in IntentTypes, r \in BOOLEAN, h \in {NoTool} \cup Tools }

NoIntent ==
    [type |-> "none", requires_tool |-> FALSE, tool_hint |-> NoTool,
     hasGreeting |-> FALSE]

\* AgentOrchestrator._is_simple_intent
IsSimpleIntent(intent) ==
    \/ intent.type = "conversation"
    \/ /\ intent.type = "question"
       /\ ~intent.requires_tool
       /\ intent.hasGreeting


(***************************************************************************)
(* Plans.  A step is its type and its tool name; a plan is its steps and   *)
(* the two skip flags of ExecutionPlan (models/base.py), which default to  *)
(* TRUE and which neither planner path sets.                               *)
(***************************************************************************)
Step(t, n) == [type |-> t, tool_name |-> n]

StepChoices ==
    { Step("llm_response", NoTool), Step("memory_retrieval", NoTool),
      Step("tool_discovery", NoTool), Step("clarification", NoTool),
      Step("tool_execution", NoTool) }
    \cup { Step("tool_execution", t) : t \in Tools }

StepSeqs == UNION { [1..n -> StepChoices] : n \in 0..MaxPlanLen }

Plan(steps, v, e) ==
    [steps |-> steps, requires_verification |-> v, requires_explanation |-> e]

NoPlan == Plan(<<>>, FALSE, FALSE)

\* PlannerAgent._analysis_to_plan: the steps are the model's, mapped one
\* to one; requires_verification and requires_explanation keep their
\* defaults.
LLMPlans == { Plan(s, TRUE, TRUE) : s \in StepSeqs }

\* PlannerAgent._heuristic_plan
HeuristicPlan(intent, available) ==
    Plan(<<Step("memory_retrieval", NoTool)>>
           \o (IF intent.requires_tool
               THEN IF intent.tool_hint # NoTool /\ intent.tool_hint \in available
                    THEN <<Step("tool_execution", intent.tool_hint)>>
                    ELSE <<Step("tool_discovery", NoTool)>>
               ELSE <<>>)
           \o <<Step("llm_response", NoTool)>>,
         TRUE, TRUE)

\* A planner test double (test_optimization.py patches create_plan) may
\* return any ExecutionPlan, the skip flags included.
RiggedPlans == { Plan(s, v, e) : s \in StepSeqs, v \in BOOLEAN, e \in BOOLEAN }

\* The plan of the fast path (orchestrator.py, process_message).
FastPathPlan == Plan(<<Step("llm_response", NoTool)>>, FALSE, FALSE)

\* A variant of _plan_needs_clarification that finds no step.
NoClarificationCheck(plan) == FALSE

\* AgentOrchestrator._plan_needs_clarification
PlanNeedsClarification(plan) ==
    \E i \in 1..Len(plan.steps) : plan.steps[i].type = "clarification"

(***************************************************************************)
(* Executor.  The output of a step is described by what the orchestrator   *)
(* and the verifier look at: none (None), empty (""), text (a non-empty    *)
(* string) or dict (a non-empty mapping).                                  *)
(***************************************************************************)
ManifestStatuses ==
    {"pending_approval", "approved", "active", "disabled", "revoked"}
Absent == "absent"

StepResult(ok, out, runs) == [success |-> ok, output |-> out, runs |-> runs]

\* DockerSandboxManager.execute_tool as the executor sees it: the container
\* is started for the manifest it is given; the invocation ends with exit
\* code 0, with another exit code, or by raising (before or after the
\* container has started).
SandboxExecuteTool(tool, status) ==
    LET run == {[tool |-> tool, status |-> status]} IN
    { StepResult(TRUE, "dict", run),
      StepResult(FALSE, "dict", run),
      StepResult(FALSE, "none", run),
      StepResult(FALSE, "none", {}) }

\* ExecutorAgent._execute_tool
ExecuteTool(step, sandbox, mf) ==
    IF step.tool_name = NoTool
    THEN { StepResult(FALSE, "none", {}) }
    ELSE IF ~sandbox
    THEN { StepResult(TRUE, "dict", {}) }
    ELSE IF mf[step.tool_name] = Absent
    THEN { StepResult(FALSE, "none", {}) }
    ELSE SandboxExecuteTool(step.tool_name, mf[step.tool_name])

\* ExecutorAgent._execute_llm_response
ExecuteLLMResponse(llm) ==
    IF ~llm
    THEN { StepResult(TRUE, "text", {}) }
    ELSE { StepResult(TRUE, "text", {}), StepResult(TRUE, "empty", {}),
           StepResult(FALSE, "none", {}) }

\* ExecutorAgent._execute_tool_discovery
ExecuteToolDiscovery(discovery) ==
    IF ~discovery
    THEN { StepResult(TRUE, "dict", {}) }
    ELSE { StepResult(TRUE, "dict", {}), StepResult(FALSE, "none", {}) }

\* ExecutorAgent._execute_step.  The executor of the orchestrator is built
\* without a memory manager, so a memory_retrieval step answers "Memory
\* system not configured".
ExecuteStep(step, c, mf) ==
    CASE step.type = "memory_retrieval" -> { StepResult(TRUE, "dict", {}) }
      [] step.type = "tool_execution" -> ExecuteTool(step, c.tools = "on", mf)
      [] step.type = "tool_discovery" -> ExecuteToolDiscovery(c.tools # "off")
      [] step.type = "llm_response" -> ExecuteLLMResponse(c.llm)
      [] step.type = "clarification" -> { StepResult(TRUE, "dict", {}) }
      [] OTHER -> { StepResult(FALSE, "none", {}) }

ExecutionResult(ok, out, n, runs) ==
    [success |-> ok, final_output |-> out, attempted |-> n, runs |-> runs]

NoExecution == ExecutionResult(FALSE, "none", 0, {})

\* What execute returns: the ExecutionResult with its step_results, each
\* the index and the success of a step.
Executed(ok, out, results, runs) ==
    [success |-> ok, final_output |-> out, attempted |-> Len(results),
     runs |-> runs, step_results |-> results]

\* A variant of the loop that goes on after a failed step.
NeverHalts(r) == FALSE

\* if result.success: ... else: return ExecutionResult(success=False, ...);
\* an exception of the step is a failed StepResult and the same return
Halts(r) == ~r.success

\* ExecutorAgent.execute: the steps in index order from step i on; last is
\* the output of the last step done, runs the containers started so far,
\* results the step results appended so far.
RECURSIVE ExecuteFrom(_, _, _, _, _, _, _)
ExecuteFrom(steps, i, last, runs, results, c, mf) ==
    IF i > Len(steps)
    THEN { Executed(TRUE, last, results, runs) }
    ELSE UNION { LET appended == Append(results, [step_index |-> i,
                                                   success |-> r.success]) IN
                 IF ~Halts(r)
                 THEN ExecuteFrom(steps, i + 1, r.output, runs \cup r.runs,
                                  appended, c, mf)
                 ELSE { Executed(FALSE, "none", appended, runs \cup r.runs) }
                 : r \in ExecuteStep(steps[i], c, mf) }

Execute(plan, c, mf) == ExecuteFrom(plan.steps, 1, "none", {}, <<>>, c, mf)

\* Python truth value of a final output.
Truthy(out) == out \in {"text", "dict"}


(***************************************************************************)
(* Results.                                                                *)
(***************************************************************************)
Result(response, reasoning, confidence) ==
    [response |-> response, reasoning |-> reasoning, confidence |-> confidence]

NoResult == Result("none", <<"none">>, 0)

\* The except clause of process_message.
Apology(e) == Result("apology", <<"Error", e>>, ApologyConfidence)

\* A variant of AgentResult whose confidence field has no ge/le constraint.
AgentResultUnvalidated(response, confidence) == response # "exec_dict"

\* AgentResult (models/base.py): response is a str, confidence is a float
\* with ge=0.0 and le=1.0; the constructor raises otherwise.
AgentResultValid(response, confidence) ==
    /\ response # "exec_dict"
    /\ confidence >= 0
    /\ confidence <= 100

Verification(c, r) == [confidence |-> c, requires_correction |-> r]

NoVerification == Verification(0, FALSE)

\* The Verification built when plan.requires_verification is false.
SkippedVerification == Verification(SkippedVerificationConfidence, FALSE)

\* A verifier test double returns an object of its own making (the
\* MagicMock of test_optimization.py): nothing validates its confidence.
RiggedConfidences == {-10, 95, 150}
RiggedVerifications ==
    { Verification(c, r) : c \in RiggedConfidences, r \in BOOLEAN }

\* VerifierAgent.verify(result, original_request=None) and
\* ExplainerAgent.explain(intent, result, verification): the keyword
\* arguments each accepts.  A test double accepts any.
VerifyAccepts(kwargs, rigged) == rigged \/ kwargs \subseteq {"original_request"}
ExplainAccepts(kwargs, rigged) ==
    rigged \/ kwargs \subseteq {"intent", "result", "verification"}

\* A variant of the correction loop: range(self.max_retries + 1).
CorrectionAttemptsOneMore == 0..max_retries

\* for attempt in range(self.max_retries)
CorrectionAttempts == 0..(max_retries - 1)

(***************************************************************************)
(* State.                                                                  *)
(***************************************************************************)
VARIABLES
    cfg,                     \* how the orchestrator is wired
    pending_clarifications,  \* AgentOrchestrator.pending_clarifications (keys)
    conversations,           \* AgentOrchestrator.conversations: turn_count, -1 = no entry
    turns,                   \* ephemeral store: the turn list of each conversation
    manifests,               \* tool_manifest.status by tool name
    available_tools,         \* PlannerAgent.available_tools (keys)
    containers,              \* containers started: tool and manifest status at start
    task,                    \* the process_message invocations in flight
    requests,                \* number of process_message calls made so far
    qdrant,                  \* vector store: the ids of the points of the collection
    postgres,                \* durable store: profile, preferences, log, metadata
    next_uuid,               \* the uuid4() values drawn so far
    outcome,                 \* what the last memory operation was given and returned
    tool_execution_log,      \* table tool_execution_log, in insertion order
    docker,                  \* the container of each execution
    clock,                   \* datetime.utcnow()
    execution,               \* the execute_tool call in flight
    container_config,        \* the last _build_container_config call and its result
    tool_volume,             \* table tool_volume and the _get_or_create_volume calls for one tool
    utterance,               \* a message, the intent agent's and the planner's answers to it
    vector_read,             \* the last read of the vector store and what it returned
    plan_run                 \* a plan given to the executor and what execute returned

\* The memory subsystem's own state; the orchestrator's steps leave it alone
\* (the turn lists of the ephemeral store are the variable turns).
memvars == <<qdrant, postgres, next_uuid, outcome>>

\* The sandbox manager's state: the execution log, the containers, the clock.
sandboxvars == <<tool_execution_log, docker, clock, execution, container_config,
                 tool_volume>>

\* The records of the calls made to the agents and to the vector store.
callvars == <<utterance, vector_read, plan_run>>

\* The orchestrator's and the tool subsystem's state.
agentvars == <<cfg, pending_clarifications, conversations, manifests,
               available_tools, containers, task, requests, sandboxvars,
               callvars>>

vars == <<cfg, pending_clarifications, conversations, turns, manifests,
          available_tools, containers, task, requests, memvars, sandboxvars,
          callvars>>

(***************************************************************************)
(* The memory subsystem's data (models/memory.py).  Confidences are        *)
(* hundredths, as everywhere in this module.                               *)
(***************************************************************************)
\* The uuid4() values one behaviour draws.
MaxMemories == 2

\* writer.py: MIN_CONFIDENCE_THRESHOLD = 0.7
MIN_CONFIDENCE_THRESHOLD == 70

MemoryTypes == {"semantic", "preference", "episodic"}

\* Preference writes carry "key: value" content, or content with no key.
PrefKeys == {"lang"}
NoKey == "none"
PrefValues == {"en", "cs"}

\* Below, at and above the threshold.
WriteConfidences == {60, 70, 90}

MemoryWriteRequest(ty, conf, k, v) ==
    [memory_type |-> ty, confidence |-> conf, key |-> k, value |-> v]

\* A preference request carries a key (or content with none) and a value;
\* the content of the other requests plays no part.
MemoryWriteRequests ==
    { MemoryWriteRequest(ty, conf, NoKey, "en") :
        ty \in MemoryTypes, conf \in WriteConfidences } \cup
    { MemoryWriteRequest("preference", conf, k, v) :
        conf \in WriteConfidences, k \in PrefKeys, v \in PrefValues }

VerifierMemoryApproval(a, conf) == [approved |-> a, confidence |-> conf]

\* A refusal's confidence is never read.
VerifierMemoryApprovals ==
    { VerifierMemoryApproval(TRUE, conf) : conf \in WriteConfidences } \cup
    { VerifierMemoryApproval(FALSE, 90) }

\* user_profile: the singleton row, or no row.
NoProfile == [exists |-> FALSE, memory_capture_enabled |-> FALSE]

UserProfile(capture) == [exists |-> TRUE, memory_capture_enabled |-> capture]

\* _create_default_profile: "capture": True
DefaultProfile == UserProfile(TRUE)

\* user_preference: at most one row per key.
NoPreference == [id |-> 0, value |-> "none"]

\* A row of memory_metadata.
MemoryMetadata(id, ty, loc, summary) ==
    [id |-> id, memory_type |-> ty, store_location |-> loc,
     summary |-> summary, is_deleted |-> FALSE]

\* The durable store after clear_all: the three tables truncated, the
\* profile row as given.
Tables(profile) ==
    [user_profile |-> profile,
     user_preference |-> [k \in PrefKeys |-> NoPreference],
     episodic_log |-> {},
     memory_metadata |-> {}]

\* MemoryWriteResult
MemoryWriteResult(ok, id, err, approved) ==
    [success |-> ok, memory_id |-> id, error |-> err, verifier_approved |-> approved]

NoWriteResult == MemoryWriteResult(FALSE, 0, "none", FALSE)

\* MemoryResetResponse
MemoryResetResponse(r, q, pg) ==
    [success |-> r /\ q /\ pg, redis_cleared |-> r, qdrant_cleared |-> q,
     postgres_cleared |-> pg]

(***************************************************************************)
(* The retrieval pipeline's data (memory/retrieval.py).  A text is kept as *)
(* its length in characters, the empty string being 0.                     *)
(***************************************************************************)
CHARS_PER_TOKEN == 4
PROFILE_TOKEN_BUDGET == 200
CONVERSATION_TOKEN_BUDGET == 500
SEMANTIC_TOKEN_BUDGET == 800
EPISODIC_TOKEN_BUDGET == 300

\* len("Recent conversation:"), len("Relevant context:"), len("Recent actions:")
TurnsHeader == 20
SemanticHeader == 17
EpisodicHeader == 15

Sections == {"profile", "conversation", "semantic", "episodic"}

\* MemoryContext: max_length of the four summaries
SummaryMaxLength ==
    [profile |-> 500, conversation |-> 1000, semantic |-> 1500, episodic |-> 500]

\* MemoryRetrievalRequest.token_limit: ge=100, le=8000, default 2000
TokenLimits == {100, 1000, 2000, 8000}

\* _summarize_profile: the default profile; capture disabled; a long list
\* of preferred languages.
ProfileSummaries == {49, 75, 900}

\* The lines _summarize_turns builds, "- User: " or "- Assistant: " and
\* the content cut to 200 characters and "...": no turn, a short one, two
\* long ones, five long ones.
TurnLines == {<<>>, <<28>>, <<211, 216>>, <<211, 216, 211, 216, 211>>}

\* The lines _summarize_semantic builds, "- " and a summary of at most
\* 500 characters.
SemanticLines == {<<>>, <<52>>, <<202, 202>>, <<502, 502, 502, 502>>}

\* The lines _summarize_episodic builds, "- [agent] " and the summary.
EpisodicLines == {<<>>, <<40>>, <<310, 310>>}

\* A request and what the stores hold when it is served; failing names the
\* subqueries whose store call raises.
RetrievalRequests ==
    [token_limit : TokenLimits, profile : ProfileSummaries, turns : TurnLines,
     semantic : SemanticLines, episodic : EpisodicLines, failing : SUBSET Sections]

NoRetrievalRequest ==
    [token_limit |-> 2000, profile |-> 49, turns |-> <<>>, semantic |-> <<>>,
     episodic |-> <<>>, failing |-> {}]

\* What a subquery returns: (summary, tokens_used), or the exception it
\* lets out.
Section(summary, tokens) == [summary |-> summary, tokens |-> tokens, raised |-> FALSE]

EmptySection == Section(0, 0)

RaisedSection == [summary |-> 0, tokens |-> 0, raised |-> TRUE]

\* What retrieve gives its caller: a MemoryContext, or an exception.
MemoryContext(p, c, sm, e, total) ==
    [returned |-> TRUE, profile |-> p, conversation |-> c, semantic |-> sm,
     episodic |-> e, total_token_estimate |-> total]

NoContext ==
    [returned |-> FALSE, profile |-> 0, conversation |-> 0, semantic |-> 0,
     episodic |-> 0, total_token_estimate |-> 0]

\* What the last memory operation was given and what it returned; cleared
\* names the stores a reset call has in fact emptied.
NoOutcome ==
    [op |-> "none",
     request |-> MemoryWriteRequest("semantic", 60, NoKey, "en"),
     approved |-> FALSE, effective_confidence |-> 0,
     result |-> NoWriteResult,
     confirm |-> FALSE, preserve_profile |-> FALSE,
     reset |-> MemoryResetResponse(FALSE, FALSE, FALSE),
     cleared |-> {},
     retrieval |-> NoRetrievalRequest, context |-> NoContext]

\* A database on which nothing has run yet: no row in any table, the
\* profile row included (get_user_profile creates it when it is missing).
MemInit ==
    /\ qdrant = {}
    /\ postgres = Tables(NoProfile)
    /\ next_uuid = 0
    /\ outcome = NoOutcome

\* a column that is NULL, a value that is None
Null == -1

IdleSandbox == [pc |-> "idle", id |-> 0, start_time |-> Null]

\* ToolManifestDB: the execution configuration.  A string entrypoint is the
\* sequence of its words and of the blanks between them.
NoImage == "none"
Entrypoint(kind, text) == [kind |-> kind, text |-> text]
NoEntrypoint == Entrypoint("none", <<>>)
ExecutionConfigs ==
    [docker_image : {NoImage, "slovo/test-tool:latest"},
     docker_entrypoint : {NoEntrypoint,
                          Entrypoint("string", <<"python", " ", "/app/main.py">>),
                          Entrypoint("list", <<"node", "/app/index.js", "--verbose">>)}]

\* ToolPermissionDB rows; the table holds one row for a tool and a type
\* (create_tool_permission: ON CONFLICT (tool_id, permission_type) DO UPDATE).
ToolPermissions ==
    [permission_type : {"internet_access"}, permission_value : {"true", "false"}]
        \cup [permission_type : {"cpu_limit"}, permission_value : {"50", "100"}]
        \cup [permission_type : {"memory_limit"}, permission_value : {"512"}]

PermissionLists ==
    { l \in UNION { [1..n -> ToolPermissions] : n \in 0..3 } :
        \A i, j \in DOMAIN l :
            l[i].permission_type = l[j].permission_type => i = j }

BaseImage == "python:3.11-slim"
PlaceholderCommand == <<"python", "-c", "print(json.dumps(params))">>

ContainerConfig(image, command, network_mode, cpu_quota, mem_limit) ==
    [image |-> image, command |-> command, network_mode |-> network_mode,
     cpu_quota |-> cpu_quota, mem_limit |-> mem_limit]

NoContainerConfig ==
    [built |-> FALSE,
     manifest |-> [docker_image |-> NoImage, docker_entrypoint |-> NoEntrypoint],
     permissions |-> <<>>,
     config |-> ContainerConfig(NoImage, <<>>, "none", 0, 0)]

\* No row of tool_volume, no Docker volume, no call made or in flight.
NoVolumes ==
    [rows |-> 0, docker_volume |-> FALSE, calls |-> 0, mounts |-> 0,
     pc |-> [p \in Tasks |-> "idle"]]

SandboxInit ==
    /\ tool_execution_log = <<>>
    /\ docker = <<>>
    /\ clock = 0
    /\ execution = IdleSandbox
    /\ container_config = NoContainerConfig
    /\ tool_volume = NoVolumes

\* The wirings the repository builds: the console and the API build the
\* agents themselves, with or without a model provider; the tests that
\* patch the agents (test_optimization.py, demo_optimization.py) pass a
\* provider.
Configs ==
    { c \in [llm : BOOLEAN, memory : BOOLEAN,
             tools : {"off", "no_docker", "on"}, rigged : BOOLEAN] :
        c.rigged => c.llm }

IdleTask ==
    [pc |-> "idle", message |-> NoMessage,
     conversation_id |-> CHOOSE c \in Cids : TRUE, depth |-> 0,
     intent |-> NoIntent, plan |-> NoPlan, execution_result |-> NoExecution,
     verification |-> NoVerification, attempt |-> 0, retrieval |-> "none",
     response |-> "none", reasoning |-> <<"none">>, result |-> NoResult,
     context_updated |-> FALSE, gate |-> "none", error |-> "none",
     absorbed |-> {}, trace |-> <<>>]

NoUtterance == [done |-> FALSE, message |-> NoMessage, intent |-> NoIntent,
                plan |-> NoPlan]

Read(op, hits, undecryptable, returned, error) ==
    [op |-> op, hits |-> hits, undecryptable |-> undecryptable,
     returned |-> returned, error |-> error]

NoRead == Read("none", {}, {}, {}, "none")

NoPlanRun == [done |-> FALSE, steps |-> <<>>,
              result |-> Executed(FALSE, "none", <<>>, {})]

Init ==
    /\ cfg \in Configs
    /\ pending_clarifications = {}
    /\ conversations = [c \in Cids |-> -1]
    /\ turns = [c \in Cids |-> <<>>]
    /\ manifests = [t \in Tools |-> Absent]
    /\ available_tools = {}
    /\ containers = {}
    /\ task = [p \in Tasks |-> IdleTask]
    /\ requests = 0
    /\ MemInit
    /\ SandboxInit
    /\ utterance = NoUtterance
    /\ vector_read = NoRead
    /\ plan_run = NoPlanRun


(***************************************************************************)
(* process_message, stage by stage.  The operators below take the record   *)
(* of one invocation and give it back as it is at the next suspension      *)
(* point (or at its return).  Four fields of the record are the log of the *)
(* invocation: trace (what it has done, in order), gate (the branch the    *)
(* fast-path gate took), error (the exception that reached the outer       *)
(* handler) and absorbed (the operations whose exception an inner handler  *)
(* logged).                                                                *)
(***************************************************************************)
Ev(t, e) == [t EXCEPT !.trace = Append(@, e)]

\* A variant of the inner handlers that lets the exception through to the
\* outer one.
NotAbsorbed(t, op) ==
    [Ev(t, "response") EXCEPT !.error = "StoreError", !.absorbed = @ \cup {op}]

\* except Exception as e: logger.warning(...)
Absorb(t, op) == [t EXCEPT !.absorbed = @ \cup {op}]

Returned(t, res) == [t EXCEPT !.pc = "done", !.result = res]

\* A variant of process_message without the outer handler: the exception
\* reaches the caller.
RaisedToCaller(t, e) == [Ev(t, "raise") EXCEPT !.pc = "raised", !.error = e]

\* except Exception as e: return AgentResult(apology, f"Error: {e}", 0.0)
Raised(t, e) == Returned([Ev(t, "response") EXCEPT !.error = e], Apology(e))

\* return AgentResult(response=response, reasoning=reasoning,
\*                    confidence=verification.confidence)
BuildResult(t) ==
    IF AgentResultValid(t.response, t.verification.confidence)
    THEN Returned(t, Result(t.response, t.reasoning, t.verification.confidence))
    ELSE Raised(t, "ValidationError")

\* _update_conversation_context, then the assistant turn if there is a
\* memory manager
AfterResponse(t, c) ==
    LET u == [Ev(t, "response") EXCEPT !.context_updated = TRUE] IN
    IF c.memory THEN [u EXCEPT !.pc = "store_assistant"] ELSE BuildResult(u)

\* Past the explainer gate the steps of the plan, the execution result and
\* the attempt counter are read no more.
Settled(t) ==
    [t EXCEPT !.plan = Plan(<<>>, @.requires_verification, @.requires_explanation),
              !.execution_result = NoExecution, !.attempt = 0]

\* the explainer gate of process_message
ExplainGate(t, c) ==
    IF ~t.plan.requires_explanation /\ Truthy(t.execution_result.final_output)
    THEN AfterResponse(
           [Settled(t) EXCEPT
              !.response = IF t.execution_result.final_output = "text"
                           THEN "exec_text" ELSE "exec_dict",
              !.reasoning = <<"Direct execution response">>], c)
    ELSE IF ExplainAccepts({"intent", "result", "verification",
                            "memory_context"}, c.rigged)
    THEN [Settled(t) EXCEPT !.pc = "explain"]
    ELSE Raised(t, "TypeError")

\* if verification.requires_correction and self.max_retries > 0
AfterVerification(t, c) ==
    IF t.verification.requires_correction /\ max_retries > 0
    THEN [t EXCEPT !.attempt = 0, !.pc = "corr_exec"]
    ELSE ExplainGate(t, c)

\* if plan.requires_verification ... else ...
AfterExecution(t, c) ==
    IF t.plan.requires_verification
    THEN IF VerifyAccepts({"original_request", "memory_context"}, c.rigged)
         THEN [t EXCEPT !.pc = "verify"]
         ELSE Raised(t, "TypeError")
    ELSE ExplainGate([t EXCEPT !.verification = SkippedVerification], c)

\* A variant of the gate that sends every intent to the planner.
GateNoFastPath(t) ==
    [t EXCEPT !.pc = "plan", !.message = NoMessage,
              !.gate = IF IsSimpleIntent(t.intent) THEN "simple" ELSE "full"]

\* the fast path gate.  Past the gate the text of the message is read no
\* more by any stage modelled here, and on the fast path neither is the
\* intent.
Gate(t) ==
    IF IsSimpleIntent(t.intent)
    THEN [t EXCEPT !.pc = "fast_exec", !.gate = "simple", !.intent = NoIntent,
                   !.message = NoMessage]
    ELSE [t EXCEPT !.pc = "plan", !.gate = "full", !.message = NoMessage]

\* if memory_task is not None: memory_context = await memory_task
AfterIntent(t) ==
    IF t.retrieval # "none" THEN [t EXCEPT !.pc = "await_memory"] ELSE Gate(t)

\* A variant of _handle_clarification_response that passes the message on
\* as it was given.
AfterUserTurnNoPrefix(t, pend, c) ==
    IF t.conversation_id \in pend
    THEN [t EXCEPT !.depth = @ + 1,
                   !.pc = IF c.memory THEN "store_user" ELSE "intent"]
    ELSE IF c.memory
    THEN [Ev(t, "retrieval_start") EXCEPT !.retrieval = "running", !.pc = "intent"]
    ELSE [t EXCEPT !.pc = "intent"]

\* if conversation_id in self.pending_clarifications: ... ; else the
\* retrieval task is created and the intent agent is called
AfterUserTurn(t, pend, c) ==
    IF t.conversation_id \in pend
    THEN [t EXCEPT !.message = Prefixed(@), !.depth = @ + 1,
                   !.pc = IF c.memory THEN "store_user" ELSE "intent"]
    ELSE IF c.memory
    THEN [Ev(t, "retrieval_start") EXCEPT !.retrieval = "running", !.pc = "intent"]
    ELSE [t EXCEPT !.pc = "intent"]

Turn(role, content) == [role |-> role, content |-> content]

\* The content of a user turn: the text as process_message was given it,
\* told apart here by the prefixes it carries.
UserText(m) == <<"text", m.prefix>>

\* _get_conversation_context
GetContext(conv, c) == [conv EXCEPT ![c] = IF @ = -1 THEN 0 ELSE @]

\* context.turn_count += 1, when the invocation has got that far
UpdateContext(conv, t, u) ==
    IF u.context_updated /\ ~t.context_updated
    THEN [conv EXCEPT ![t.conversation_id] = @ + 1]
    ELSE conv

(***************************************************************************)
(* Actions.                                                                *)
(***************************************************************************)
\* process_message(message, conversation_id) up to its first suspension.
\* Nothing in the orchestrator or in the chat endpoint holds a call back
\* while another one for the same conversation is in flight.
ProcessMessage(p, m, c) ==
    /\ task[p].pc = "idle"
    /\ requests < MaxRequests
    /\ requests' = requests + 1
    /\ conversations' = GetContext(conversations, c)
    /\ LET t == [IdleTask EXCEPT !.message = m, !.conversation_id = c] IN
       IF cfg.memory
       THEN /\ task' = [task EXCEPT ![p] = [t EXCEPT !.pc = "store_user"]]
            /\ UNCHANGED pending_clarifications
       ELSE /\ task' = [task EXCEPT ![p] = AfterUserTurn(t, pending_clarifications, cfg)]
            /\ pending_clarifications' = pending_clarifications \ {c}
    /\ UNCHANGED <<memvars, sandboxvars, callvars, cfg, turns, manifests, available_tools, containers>>

\* await self._memory.store_turn(role="user"): the write succeeds or its
\* failure is logged; then the pending-clarification check.
StoreUserTurn(p) ==
    LET t == task[p] IN
    /\ t.pc = "store_user"
    /\ \E ok \in BOOLEAN :
         LET u == IF ok THEN Ev(t, "user_write") ELSE Absorb(t, "user_write") IN
         /\ turns' = IF ok
                     THEN [turns EXCEPT ![t.conversation_id] =
                             Append(@, Turn("user", UserText(t.message)))]
                     ELSE turns
         /\ task' = [task EXCEPT ![p] = AfterUserTurn(u, pending_clarifications, cfg)]
    /\ pending_clarifications' = pending_clarifications \ {t.conversation_id}
    /\ conversations' = GetContext(conversations, t.conversation_id)
    /\ UNCHANGED <<memvars, sandboxvars, callvars, cfg, manifests, available_tools, containers, requests>>

\* intent = await self.intent_agent.interpret(message, ...)
Interpret(p) ==
    LET t == task[p] IN
    /\ t.pc = "intent"
    /\ IF cfg.llm
       THEN \/ \E i \in LLMIntents(t.message) :
                 task' = [task EXCEPT ![p] = AfterIntent([t EXCEPT !.intent = i])]
            \/ task' = [task EXCEPT ![p] = Raised(t, "LLMError")]
       ELSE task' = [task EXCEPT ![p] =
                       AfterIntent([t EXCEPT !.intent = HeuristicIntent(t.message)])]
    /\ UNCHANGED <<memvars, sandboxvars, callvars, cfg, pending_clarifications, conversations, turns, manifests,
                   available_tools, containers, requests>>

\* The retrieval task started by asyncio.create_task runs to its end.
RetrievalFinish(p) ==
    LET t == task[p] IN
    /\ t.retrieval = "running"
    /\ \E r \in {"done", "failed"} :
         task' = [task EXCEPT ![p] = [Ev(t, "retrieval_end") EXCEPT !.retrieval = r]]
    /\ UNCHANGED <<memvars, sandboxvars, callvars, cfg, pending_clarifications, conversations, turns, manifests,
                   available_tools, containers, requests>>

\* memory_context = await memory_task (a failure is logged)
AwaitMemory(p) ==
    LET t == task[p] IN
    /\ t.pc = "await_memory"
    /\ t.retrieval \in {"done", "failed"}
    /\ task' = [task EXCEPT ![p] =
                  Gate(IF t.retrieval = "failed" THEN Absorb(t, "retrieval") ELSE t)]
    /\ UNCHANGED <<memvars, sandboxvars, callvars, cfg, pending_clarifications, conversations, turns, manifests,
                   available_tools, containers, requests>>


Stored(ex) == [success |-> ex.success, final_output |-> ex.final_output,
               attempted |-> ex.attempted, runs |-> {}]

\* The fast path: the one-step plan is executed, the response is taken
\* from the execution result, the context is updated.
FastPath(p) ==
    LET t == task[p] IN
    /\ t.pc = "fast_exec"
    /\ \E ex \in Execute(FastPathPlan, cfg, manifests) :
         LET u == [Ev(Ev(t, "exec"), "response") EXCEPT
                     !.plan = FastPathPlan,
                     !.execution_result = Stored(ex),
                     !.response = IF Truthy(ex.final_output)
                                  THEN "exec_text" ELSE "default_help",
                     !.reasoning = <<"Simple conversational response">>,
                     !.context_updated = TRUE]
             res == Result(u.response, u.reasoning, FastPathConfidence) IN
         /\ task' = [task EXCEPT ![p] =
                       IF cfg.memory THEN [u EXCEPT !.pc = "fast_store"]
                       ELSE Returned(u, res)]
         /\ containers' = containers \cup ex.runs
         /\ conversations' = UpdateContext(conversations, t, u)
    /\ UNCHANGED <<memvars, sandboxvars, callvars, cfg, pending_clarifications, turns, manifests,
                   available_tools, requests>>

\* The assistant turn of the fast path, then the return.
FastStore(p) ==
    LET t == task[p] IN
    /\ t.pc = "fast_store"
    /\ \E ok \in BOOLEAN :
         /\ turns' = IF ok
                     THEN [turns EXCEPT ![t.conversation_id] =
                             Append(@, Turn("assistant", t.response))]
                     ELSE turns
         /\ task' = [task EXCEPT ![p] =
                       Returned(IF ok THEN Ev(t, "assistant_write")
                                ELSE Absorb(t, "assistant_write"),
                                Result(t.response, t.reasoning, FastPathConfidence))]
    /\ UNCHANGED <<memvars, sandboxvars, callvars, cfg, pending_clarifications, conversations, manifests,
                   available_tools, containers, requests>>

\* PlannerAgent.create_plan
PlannerPlans(t) ==
    IF cfg.rigged THEN RiggedPlans
    ELSE IF cfg.llm THEN LLMPlans
    ELSE { HeuristicPlan(t.intent, available_tools) }

\* _request_clarification_from_plan
RequestClarification(t) ==
    Returned([Ev(t, "response") EXCEPT !.response = "clarification_question"],
             Result("clarification_question",
                    <<"Requesting clarification before proceeding">>,
                    ClarificationConfidence))

\* plan = await self.planner_agent.create_plan(...), then the
\* clarification check.
CreatePlan(p) ==
    LET t == task[p] IN
    /\ t.pc = "plan"
    /\ \/ \E pl \in PlannerPlans(t) :
            LET u == [Ev(t, "plan") EXCEPT !.plan = pl, !.intent = NoIntent] IN
            IF PlanNeedsClarification(pl)
            THEN /\ pending_clarifications' =
                       pending_clarifications \cup {t.conversation_id}
                 /\ task' = [task EXCEPT ![p] = RequestClarification(u)]
            ELSE /\ task' = [task EXCEPT ![p] = [u EXCEPT !.pc = "execute"]]
                 /\ UNCHANGED pending_clarifications
       \/ /\ cfg.llm /\ ~cfg.rigged
          /\ task' = [task EXCEPT ![p] = Raised(t, "LLMError")]
          /\ UNCHANGED pending_clarifications
    /\ UNCHANGED <<memvars, sandboxvars, callvars, cfg, conversations, turns, manifests, available_tools,
                   containers, requests>>

\* execution_result = await self.executor_agent.execute(plan, ...), then
\* the synchronous code up to the next agent call.
ExecutePlan(p) ==
    LET t == task[p] IN
    /\ t.pc = "execute"
    /\ \E ex \in Execute(t.plan, cfg, manifests) :
         LET u == AfterExecution([Ev(t, "exec") EXCEPT !.execution_result = Stored(ex)], cfg) IN
         /\ task' = [task EXCEPT ![p] = u]
         /\ containers' = containers \cup ex.runs
         /\ conversations' = UpdateContext(conversations, t, u)
    /\ UNCHANGED <<memvars, sandboxvars, callvars, cfg, pending_clarifications, turns, manifests,
                   available_tools, requests>>

\* verification = await self.verifier_agent.verify(...)
Verify(p) ==
    LET t == task[p] IN
    /\ t.pc = "verify"
    /\ \E v \in RiggedVerifications :
         LET u == AfterVerification([Ev(t, "verify") EXCEPT !.verification = v], cfg) IN
         /\ task' = [task EXCEPT ![p] = u]
         /\ conversations' = UpdateContext(conversations, t, u)
    /\ UNCHANGED <<memvars, sandboxvars, callvars, cfg, pending_clarifications, turns, manifests,
                   available_tools, containers, requests>>

\* A variant of the correction loop without its break.
AfterCorrectionNoBreak(t, c) ==
    IF t.attempt + 1 \in CorrectionAttempts
    THEN [t EXCEPT !.attempt = t.attempt + 1, !.pc = "corr_exec"]
    ELSE ExplainGate(t, c)

\* if not verification.requires_correction: break; otherwise the next
\* attempt of range(self.max_retries), or the end of the loop
AfterCorrection(t, c) ==
    IF ~t.verification.requires_correction THEN ExplainGate(t, c)
    ELSE IF t.attempt + 1 \in CorrectionAttempts
    THEN [t EXCEPT !.attempt = t.attempt + 1, !.pc = "corr_exec"]
    ELSE ExplainGate(t, c)

\* _attempt_correction: the re-execution of one attempt
CorrectionExecute(p) ==
    LET t == task[p] IN
    /\ t.pc = "corr_exec"
    /\ \E ex \in Execute(t.plan, cfg, manifests) :
         /\ task' = [task EXCEPT ![p] =
                       [Ev(t, "exec") EXCEPT !.execution_result = Stored(ex),
                                             !.pc = "corr_verify"]]
         /\ containers' = containers \cup ex.runs
    /\ UNCHANGED <<memvars, sandboxvars, callvars, cfg, pending_clarifications, conversations, turns, manifests,
                   available_tools, requests>>

\* _attempt_correction: the re-verification of one attempt, then the break,
\* the next attempt or the end of the loop.
CorrectionVerify(p) ==
    LET t == task[p] IN
    /\ t.pc = "corr_verify"
    /\ VerifyAccepts({"original_request"}, cfg.rigged)
    /\ \E v \in RiggedVerifications :
         LET w == [Ev(t, "verify") EXCEPT !.verification = v]
             u == AfterCorrection(w, cfg) IN
         /\ task' = [task EXCEPT ![p] = u]
         /\ conversations' = UpdateContext(conversations, t, u)
    /\ UNCHANGED <<memvars, sandboxvars, callvars, cfg, pending_clarifications, turns, manifests,
                   available_tools, containers, requests>>

\* explanation = await self.explainer_agent.explain(...)
Explain(p) ==
    LET t == task[p] IN
    /\ t.pc = "explain"
    /\ \/ LET u == AfterResponse([Ev(t, "explain") EXCEPT
                                    !.response = "explanation",
                                    !.reasoning = <<"explanation.reasoning">>], cfg) IN
          /\ task' = [task EXCEPT ![p] = u]
          /\ conversations' = UpdateContext(conversations, t, u)
       \/ /\ task' = [task EXCEPT ![p] = Raised(Ev(t, "explain"), "ExplainerError")]
          /\ UNCHANGED conversations
    /\ UNCHANGED <<memvars, sandboxvars, callvars, cfg, pending_clarifications, turns, manifests,
                   available_tools, containers, requests>>

\* The assistant turn of the full pipeline (a failure is logged; a
\* response that is not a string cannot be stored), then the return.
StoreAssistant(p) ==
    LET t == task[p] IN
    /\ t.pc = "store_assistant"
    /\ \E ok \in BOOLEAN :
         /\ ok => t.response # "exec_dict"
         /\ turns' = IF ok
                     THEN [turns EXCEPT ![t.conversation_id] =
                             Append(@, Turn("assistant", t.response))]
                     ELSE turns
         /\ task' = [task EXCEPT ![p] =
                       BuildResult(IF ok THEN Ev(t, "assistant_write")
                                   ELSE Absorb(t, "assistant_write"))]
    /\ UNCHANGED <<memvars, sandboxvars, callvars, cfg, pending_clarifications, conversations, manifests,
                   available_tools, containers, requests>>

\* The caller takes the result and the invocation is over.
Return(p) ==
    LET t == task[p] IN
    /\ t.pc = "done"
    /\ task' = [task EXCEPT ![p] = IdleTask]
    /\ UNCHANGED <<memvars, sandboxvars, callvars, cfg, pending_clarifications, conversations, turns, manifests,
                   available_tools, containers, requests>>

(***************************************************************************)
(* Tool lifecycle (console commands /tool import, approve, revoke).        *)
(***************************************************************************)
\* a create_tool_manifest that publishes the manifest at once
ImportToolApproved(tl) ==
    /\ cfg.tools # "off"
    /\ manifests[tl] = Absent
    /\ manifests' = [manifests EXCEPT ![tl] = "approved"]
    /\ UNCHANGED <<memvars, sandboxvars, callvars, cfg, pending_clarifications, conversations, turns,
                   available_tools, containers, task, requests>>

\* ToolRepository.create_tool_manifest
ImportTool(tl) ==
    /\ cfg.tools # "off"
    /\ manifests[tl] = Absent
    /\ manifests' = [manifests EXCEPT ![tl] = "pending_approval"]
    /\ UNCHANGED <<memvars, sandboxvars, callvars, cfg, pending_clarifications, conversations, turns,
                   available_tools, containers, task, requests>>

\* /tool approve: update_tool_manifest(status=APPROVED), register_tool
ApproveTool(tl) ==
    /\ cfg.tools # "off"
    /\ manifests[tl] # Absent
    /\ manifests' = [manifests EXCEPT ![tl] = "approved"]
    /\ available_tools' = available_tools \cup {tl}
    /\ UNCHANGED <<memvars, sandboxvars, callvars, cfg, pending_clarifications, conversations, turns,
                   containers, task, requests>>

\* /tool revoke: update_tool_manifest(status=REVOKED), unregister_tool
RevokeTool(tl) ==
    /\ cfg.tools # "off"
    /\ manifests[tl] # Absent
    /\ manifests' = [manifests EXCEPT ![tl] = "revoked"]
    /\ available_tools' = available_tools \ {tl}
    /\ UNCHANGED <<memvars, sandboxvars, callvars, cfg, pending_clarifications, conversations, turns,
                   containers, task, requests>>

Caller == "t1"

\* The console reads one line at a time: a /tool command runs between two
\* messages.
AtPrompt == task[Caller].pc = "idle"

\* One invocation of process_message, from its call to its return value.
Call(p) ==
    \/ \E m \in Messages, c \in Cids : ProcessMessage(p, m, c)
    \/ StoreUserTurn(p)
    \/ Interpret(p)
    \/ RetrievalFinish(p)
    \/ AwaitMemory(p)
    \/ FastPath(p)
    \/ FastStore(p)
    \/ CreatePlan(p)
    \/ ExecutePlan(p)
    \/ Verify(p)
    \/ CorrectionExecute(p)
    \/ CorrectionVerify(p)
    \/ Explain(p)
    \/ StoreAssistant(p)

(***************************************************************************)
(* Spec: one invocation of process_message, under every wiring, started    *)
(* without the tool subsystem.  The orchestrator is at rest when the call  *)
(* is made: earlier calls may have left pending clarifications behind (a   *)
(* call that returns a clarification question has created the context of   *)
(* its conversation and has not counted a turn).                           *)
(***************************************************************************)
InitCall ==
    /\ cfg \in Configs
    /\ cfg.tools = "off"
    /\ pending_clarifications \in SUBSET Cids
    /\ conversations = [c \in Cids |-> IF c \in pending_clarifications THEN 0 ELSE -1]
    /\ turns = [c \in Cids |-> <<>>]
    /\ manifests = [t \in Tools |-> Absent]
    /\ available_tools = {}
    /\ containers = {}
    /\ task = [p \in Tasks |-> IdleTask]
    /\ requests = 0
    /\ MemInit
    /\ SandboxInit
    /\ utterance = NoUtterance
    /\ vector_read = NoRead
    /\ plan_run = NoPlanRun

Next == Call(Caller)

Spec == InitCall /\ [][Next]_vars

(***************************************************************************)
(* SpecSession: the console loop with the agents the orchestrator builds   *)
(* itself, one message after another.  With these agents no invocation     *)
(* gets as far as the verifier's answer (see AfterExecution).              *)
(***************************************************************************)
InitSession == Init /\ cfg.tools = "off" /\ ~cfg.rigged

NextSession ==
    \/ \E m \in Messages, c \in Cids : ProcessMessage(Caller, m, c)
    \/ StoreUserTurn(Caller)
    \/ Interpret(Caller)
    \/ RetrievalFinish(Caller)
    \/ AwaitMemory(Caller)
    \/ FastPath(Caller)
    \/ FastStore(Caller)
    \/ CreatePlan(Caller)
    \/ ExecutePlan(Caller)
    \/ Return(Caller)

SpecSession == InitSession /\ [][NextSession]_vars

(***************************************************************************)
(* SpecTools: the console with the tool subsystem and the sandbox, a model *)
(* provider and no memory manager: /tool commands, then one message.       *)
(***************************************************************************)
InitTools ==
    Init /\ cfg.tools = "on" /\ cfg.llm /\ ~cfg.memory /\ ~cfg.rigged

NextTools ==
    \/ \E tl \in Tools : AtPrompt /\ ImportTool(tl)
    \/ \E tl \in Tools : AtPrompt /\ ApproveTool(tl)
    \/ \E tl \in Tools : AtPrompt /\ RevokeTool(tl)
    \/ \E m \in Messages, c \in Cids : ProcessMessage(Caller, m, c)
    \/ Interpret(Caller)
    \/ FastPath(Caller)
    \/ CreatePlan(Caller)
    \/ ExecutePlan(Caller)

SpecTools == InitTools /\ [][NextTools]_vars

(***************************************************************************)
(* Properties.  call is the invocation of the caller; a property about     *)
(* what process_message returns is stated at pc = "done".                  *)
(***************************************************************************)
call == task[Caller]

Done == call.pc = "done"

Count(tr, e) == Cardinality({ i \in 1..Len(tr) : tr[i] = e })

\* every a of the trace comes before every b
Before(tr, a, b) == \A i, j \in 1..Len(tr) : tr[i] = a /\ tr[j] = b => i < j

HasClarificationStep(plan) ==
    \E i \in 1..Len(plan.steps) : plan.steps[i].type = "clarification"

\* C1: every container the sandbox has started was started for a manifest
\* whose status was approved or active; for a manifest in any other status
\* (pending_approval, disabled, revoked) no container is started.
C1_OnlyEligibleManifestsRun ==
    \A r \in containers : r.status \in {"approved", "active"}

\* C2 (as amended): when the intent is simple, process_message invokes the
\* executor exactly once on the one-step llm_response plan, never the
\* planner, the verifier or the explainer, and returns, with confidence 1.0
\* and the reasoning "Simple conversational response", the executor's final
\* output when that output is non-empty and the fixed reply "I'm here to
\* help!" otherwise.
C2_FastPath ==
    Done /\ call.gate = "simple" =>
        /\ Count(call.trace, "exec") = 1
        /\ call.plan = FastPathPlan
        /\ Count(call.trace, "plan") = 0
        /\ Count(call.trace, "verify") = 0
        /\ Count(call.trace, "explain") = 0
        /\ call.result =
             Result(IF Truthy(call.execution_result.final_output)
                    THEN "exec_text" ELSE "default_help",
                    <<"Simple conversational response">>, FastPathConfidence)

\* C2 as stated: when the intent is simple, process_message invokes the
\* executor exactly once, never the planner, the verifier or the explainer,
\* and returns the executor's output with confidence 1.0.
C2_FastPathReturnsExecutorOutput ==
    Done /\ call.gate = "simple" =>
        /\ Count(call.trace, "exec") = 1
        /\ Count(call.trace, "plan") = 0
        /\ Count(call.trace, "verify") = 0
        /\ Count(call.trace, "explain") = 0
        /\ call.result.response = "exec_text"
        /\ call.result.confidence = FastPathConfidence

\* A fast-path call whose executor produced no output.
C2_Witness ==
    /\ Done
    /\ call.gate = "simple"
    /\ ~Truthy(call.execution_result.final_output)
    /\ call.result.response = "default_help"

\* C3: with the agents the orchestrator builds, when the intent is not
\* simple and the plan has no clarification step and requires verification
\* and explanation, process_message invokes the executor, then the
\* verifier, then the explainer, and returns the explainer's response with
\* the confidence of the final verification.
C3_FullPipeline ==
    ( /\ Done
      /\ ~cfg.rigged
      /\ call.gate = "full"
      /\ Count(call.trace, "plan") = 1
      /\ ~HasClarificationStep(call.plan)
      /\ call.plan.requires_verification
      /\ call.plan.requires_explanation ) =>
        /\ Count(call.trace, "exec") >= 1
        /\ Count(call.trace, "verify") >= 1
        /\ Count(call.trace, "explain") = 1
        /\ Before(call.trace, "exec", "explain")
        /\ Before(call.trace, "verify", "explain")
        /\ call.result.response = "explanation"
        /\ call.result.confidence = call.verification.confidence

\* C4: if the plan returned by the planner contains a clarification step,
\* process_message records a pending clarification for the conversation id,
\* returns the clarification question with confidence 0.5 and does not
\* invoke the executor in that call.
C4_ClarificationRequested ==
    Done /\ HasClarificationStep(call.plan) =>
        /\ call.conversation_id \in pending_clarifications
        /\ call.result = Result("clarification_question",
                                <<"Requesting clarification before proceeding">>,
                                ClarificationConfidence)
        /\ Count(call.trace, "exec") = 0
        /\ Count(call.trace, "verify") = 0
        /\ Count(call.trace, "explain") = 0

C4_Witness ==
    /\ Done
    /\ HasClarificationStep(call.plan)
    /\ call.result.confidence = ClarificationConfidence

\* C5: if a pending clarification exists for the conversation id when
\* process_message is called, the entry is removed (it is absent until the
\* planner of the reprocessing is called), the message is reprocessed once,
\* with one "[Clarification] " prefix, and the call returns the result the
\* reprocessing built.
C5_ClarificationReplyReprocessed ==
    /\ call.depth \in {0, 1}
    /\ call.conversation_id \in pending_clarifications =>
         \/ call.depth = 0 /\ call.pc \in {"idle", "store_user"}
         \/ Done /\ HasClarificationStep(call.plan)
    /\ call.depth = 1 /\ call.pc \in {"store_user", "intent", "await_memory"} =>
         call.message.prefix = 1
    /\ call.depth = 0 /\ call.pc \in {"store_user", "intent", "await_memory"} =>
         call.message.prefix = 0
    /\ Done /\ call.depth = 1 =>
         /\ call.result # NoResult
         /\ Count(call.trace, "response") >= 1

\* A reply to a clarification question, answered from its reprocessing.
C5_Witness ==
    /\ Done
    /\ call.depth = 1
    /\ call.result.response = "exec_text"

\* C6: after a message for a conversation has been answered with a
\* clarification request, the next message for the same conversation id
\* consumes the pending clarification and returns a response that is not
\* itself a clarification request.
C6_ReplyNotAnsweredByClarification ==
    Done /\ call.depth = 1 =>
        /\ call.result.response # "clarification_question"
        /\ call.conversation_id \notin pending_clarifications

\* C7: within one process_message call the executor is invoked at most
\* 1 + max_retries times, also when every verification asks for a
\* correction.
C7_BoundedReExecution ==
    /\ Count(call.trace, "exec") <= 1 + max_retries
    /\ Count(call.trace, "verify") <= 1 + max_retries

\* Every verification asked for a correction, and the call has returned.
C7_Witness ==
    /\ Done
    /\ Count(call.trace, "exec") = 1 + max_retries
    /\ Count(call.trace, "verify") = 1 + max_retries
    /\ call.verification.requires_correction

\* C8 (as amended): process_message never raises to its caller: any
\* exception that no inner handler of the turn writes and of the memory
\* retrieval has absorbed results in the fixed apology response with
\* confidence 0.0 and the exception text in the reasoning field; the apology
\* is returned for no other reason.
C8_UnabsorbedExceptionApology ==
    /\ call.pc # "raised"
    /\ call.error # "none" =>
         /\ Done
         /\ call.result = Result("apology", <<"Error", call.error>>, ApologyConfidence)
    /\ Done /\ call.result.response = "apology" => call.error # "none"

\* C8 as stated: any exception raised inside the body of process_message,
\* those of the turn writes and of the memory retrieval included, results
\* in the fixed apology response with confidence 0.0.
C8_AnyExceptionApology ==
    Done /\ (call.error # "none" \/ call.absorbed # {}) =>
        /\ call.result.response = "apology"
        /\ call.result.confidence = ApologyConfidence

\* An agent raised in the middle of the pipeline.
C8_Witness ==
    /\ Done
    /\ call.error = "ExplainerError"
    /\ call.result.response = "apology"

\* C9: every result process_message returns, on every path, has a
\* confidence in the closed interval [0, 1].
C9_ConfidenceInUnitInterval ==
    Done =>
        /\ call.result.confidence >= 0
        /\ call.result.confidence <= 100

\* A verifier reported a confidence outside [0, 1] and the call returned.
C9_Witness ==
    /\ Done
    /\ call.verification.confidence > 100
    /\ call.error = "ValidationError"

\* C10: within one invocation the user turn is written before memory
\* retrieval starts, retrieval completes before the response is produced,
\* and the assistant turn is written only after the response has been
\* produced.
C10_HappensBefore ==
    /\ Before(call.trace, "user_write", "retrieval_start")
    /\ Before(call.trace, "retrieval_end", "response")
    /\ Count(call.trace, "response") > 0 => call.retrieval # "running"
    /\ Before(call.trace, "response", "assistant_write")

(***************************************************************************)
(* SpecApi: the chat endpoint (api/chat.py) with a memory manager and no   *)
(* model provider: every request is its own process_message invocation on  *)
(* the one orchestrator, and invocations interleave at their awaits.       *)
(***************************************************************************)
InitApi ==
    Init /\ cfg.tools = "off" /\ cfg.memory /\ ~cfg.llm /\ ~cfg.rigged

NextApi ==
    \E p \in Tasks :
        \/ \E m \in Messages, c \in Cids : ProcessMessage(p, m, c)
        \/ StoreUserTurn(p)
        \/ Interpret(p)
        \/ RetrievalFinish(p)
        \/ AwaitMemory(p)
        \/ FastPath(p)
        \/ FastStore(p)
        \/ CreatePlan(p)
        \/ ExecutePlan(p)
        \/ Return(p)

SpecApi == InitApi /\ [][NextApi]_vars

InFlight(p) == task[p].pc # "idle"

\* C11: requests for the same conversation id are serialised: at most one
\* process_message invocation per conversation id is in flight at any time,
\* so no two invocations in flight for one conversation have both appended
\* a turn to its list (the turns of two requests are never interleaved).
C11_OneInFlightPerConversation ==
    \A p, q \in Tasks :
        ( /\ p # q
          /\ InFlight(p)
          /\ InFlight(q) ) =>
            /\ task[p].conversation_id # task[q].conversation_id
            /\ ~ ( /\ task[p].conversation_id = task[q].conversation_id
                   /\ Count(task[p].trace, "user_write") > 0
                   /\ Count(task[q].trace, "user_write") > 0 )

\* The exceptions the stages of the pipeline raise.
PipelineErrors == {"LLMError", "TypeError", "ValidationError", "ExplainerError"}

\* C12: a failure of the user-turn write, of the memory retrieval or of the
\* assistant-turn write is absorbed: it is never the exception the outer
\* handler reports, and a call in which nothing else raised returns the
\* response the pipeline produced, not the apology.
C12_StoreFailuresAbsorbed ==
    /\ call.error \in {"none"} \cup PipelineErrors
    /\ Done /\ call.absorbed # {} /\ call.error = "none" =>
         /\ call.result.response \in
              {"exec_text", "default_help", "explanation", "clarification_question"}
         /\ call.result.response = call.response
         /\ call.result.confidence > ApologyConfidence

\* All three operations failed and the call returned the executor's output.
C12_Witness ==
    /\ Done
    /\ call.absorbed = {"user_write", "retrieval", "assistant_write"}
    /\ call.result.response = "exec_text"

(***************************************************************************)
(* The memory subsystem: the writer (memory/writer.py), the repositories   *)
(* of the vector store and of the durable store, and the manager's         *)
(* inspector and reset operations (memory/manager.py).  Every call to a    *)
(* store may raise; faults names the calls that do in one operation.       *)
(***************************************************************************)
Min(a, b) == IF a < b THEN a ELSE b

\* The two stores a write works on.
Db(q, pg) == [qdrant |-> q, postgres |-> pg]

\* PostgresRepository.get_user_profile: the row, created with its defaults
\* when there is none.
GetUserProfile(pg) ==
    IF pg.user_profile.exists THEN pg
    ELSE [pg EXCEPT !.user_profile = DefaultProfile]

\* PostgresRepository.track_memory: INSERT ... ON CONFLICT (id) DO UPDATE
\* SET summary, confidence, is_deleted, updated_at.
TrackMemory(pg, row) ==
    IF \E r \in pg.memory_metadata : r.id = row.id
    THEN [pg EXCEPT !.memory_metadata =
            { IF r.id = row.id
              THEN [r EXCEPT !.summary = row.summary, !.is_deleted = row.is_deleted]
              ELSE r : r \in @ }]
    ELSE [pg EXCEPT !.memory_metadata = @ \cup {row}]

\* PostgresRepository.set_preference: INSERT ... ON CONFLICT (key) DO UPDATE
\* SET value, source, confidence, updated_at; the stored row keeps its id.
SetPreference(pg, k, v, id) ==
    [pg EXCEPT !.user_preference[k] =
        IF @ = NoPreference THEN [id |-> id, value |-> v]
        ELSE [@ EXCEPT !.value = v]]

\* What a write returns to its action: the stores, the result and the
\* number of uuid4() values it drew.
Written(db, result, uuids) ==
    [qdrant |-> db.qdrant, postgres |-> db.postgres, result |-> result,
     uuids |-> uuids]

\* An early return of write: nothing has been written.
Rejected(db, err, approved) ==
    Written(db, MemoryWriteResult(FALSE, 0, err, approved), 0)

SemanticSummary == <<"content">>
EditedSummary == <<"edited">>
PreferenceSummary(k, v) == <<k, v>>

\* _write_semantic: embed, store the point, then track it; any exception
\* ends the write with success = False where it stands.
WriteSemantic(db, id, faults) ==
    IF "embed" \in faults
    THEN Written(db, MemoryWriteResult(FALSE, 0, "exception", TRUE), 0)
    ELSE IF "store" \in faults
    THEN Written(db, MemoryWriteResult(FALSE, 0, "exception", TRUE), 1)
    ELSE LET stored == [db EXCEPT !.qdrant = @ \cup {id}] IN
         IF "track_memory" \in faults
         THEN Written(stored, MemoryWriteResult(FALSE, 0, "exception", TRUE), 1)
         ELSE Written([stored EXCEPT !.postgres =
                          TrackMemory(@, MemoryMetadata(id, "semantic", "qdrant",
                                                        SemanticSummary))],
                      MemoryWriteResult(TRUE, id, "none", TRUE), 1)

\* _write_preference: the key from the content, set_preference, then
\* track_memory under the id of the UserPreference set_preference returns,
\* which is the uuid4() of this call.
WritePreference(db, request, id, faults) ==
    IF request.key = NoKey
    THEN Written(db, MemoryWriteResult(FALSE, 0, "invalid_format", TRUE), 0)
    ELSE IF "set_preference" \in faults
    THEN Written(db, MemoryWriteResult(FALSE, 0, "exception", TRUE), 1)
    ELSE LET set == [db EXCEPT !.postgres =
                        SetPreference(@, request.key, request.value, id)] IN
         IF "track_memory" \in faults
         THEN Written(set, MemoryWriteResult(FALSE, 0, "exception", TRUE), 1)
         ELSE Written([set EXCEPT !.postgres =
                          TrackMemory(@, MemoryMetadata(id, "preference", "postgres",
                                PreferenceSummary(request.key, request.value)))],
                      MemoryWriteResult(TRUE, id, "none", TRUE), 1)

\* _write_episodic: add_episodic_log, then track_memory.
WriteEpisodic(db, id, faults) ==
    IF "add_episodic_log" \in faults
    THEN Written(db, MemoryWriteResult(FALSE, 0, "exception", TRUE), 1)
    ELSE LET logged == [db EXCEPT !.postgres.episodic_log = @ \cup {id}] IN
         IF "track_memory" \in faults
         THEN Written(logged, MemoryWriteResult(FALSE, 0, "exception", TRUE), 1)
         ELSE Written([logged EXCEPT !.postgres =
                          TrackMemory(@, MemoryMetadata(id, "episodic", "postgres",
                                                        SemanticSummary))],
                      MemoryWriteResult(TRUE, id, "none", TRUE), 1)

\* write: "Route to appropriate store"
Route(db, request, id, faults) ==
    CASE request.memory_type = "semantic" -> WriteSemantic(db, id, faults)
      [] request.memory_type = "preference" -> WritePreference(db, request, id, faults)
      [] request.memory_type = "episodic" -> WriteEpisodic(db, id, faults)

\* A write that routes the request first and reads the profile afterwards.
WriteThenCheckCapture(db, request, approval, id, faults) ==
    LET w == Route(db, request, id, faults) IN
    IF ~approval.approved
    THEN Rejected(db, "verifier_rejected", FALSE)
    ELSE IF Min(request.confidence, approval.confidence) < MIN_CONFIDENCE_THRESHOLD
    THEN Rejected(db, "low_confidence", TRUE)
    ELSE IF /\ "get_user_profile" \notin faults
            /\ ~GetUserProfile(db.postgres).user_profile.memory_capture_enabled
    THEN Written(w, MemoryWriteResult(FALSE, 0, "capture_disabled", TRUE), w.uuids)
    ELSE w

\* MemoryWriteService.write: the three gates in order, then the route.  A
\* profile that cannot be read lets the request through.
Write(db, request, approval, id, faults) ==
    LET effective_confidence == Min(request.confidence, approval.confidence)
        read == [db EXCEPT !.postgres = GetUserProfile(@)]
    IN
    IF ~approval.approved
    THEN Rejected(db, "verifier_rejected", FALSE)
    ELSE IF effective_confidence < MIN_CONFIDENCE_THRESHOLD
    THEN Rejected(db, "low_confidence", TRUE)
    ELSE IF "get_user_profile" \in faults
    THEN Route(db, request, id, faults)
    ELSE IF ~read.postgres.user_profile.memory_capture_enabled
    THEN Rejected(read, "capture_disabled", TRUE)
    ELSE Route(read, request, id, faults)

\* The calls of one write that may raise: the profile read, whose failure
\* is passed over, and the first call of the route that fails.
WriteFaults(ty) ==
    LET calls == CASE ty = "semantic" -> {"embed", "store", "track_memory"}
                   [] ty = "preference" -> {"set_preference", "track_memory"}
                   [] ty = "episodic" -> {"add_episodic_log", "track_memory"}
    IN { read \cup route :
            read \in {{}, {"get_user_profile"}},
            route \in {{}} \cup { {f} : f \in calls } }

\* RedisRepository.clear_all deletes the keys one by one: cleared is the
\* set of conversations whose turn list it got to.
RedisClearAll(t, cleared) == [c \in Cids |-> IF c \in cleared THEN <<>> ELSE t[c]]

\* QdrantRepository.clear_all: delete_collection and ensure_collection in
\* a try; an exception is logged and False returned.
QdrantClearAll(q, faults) == IF "delete_collection" \in faults THEN q ELSE {}

\* PostgresRepository.clear_all: the three tables truncated, the profile
\* truncated and created anew unless it is preserved; an exception rolls
\* the transaction back and False is returned.
PostgresClearAll(pg, preserve_profile, faults) ==
    IF "truncate" \in faults THEN pg
    ELSE Tables(IF preserve_profile THEN pg.user_profile ELSE DefaultProfile)

\* The turns one conversation keeps in the ephemeral store here.
MaxStoredTurns == 1

\* MemoryManager.write_memory(request, approval)
WriteMemory(request, approval) ==
    /\ next_uuid < MaxMemories
    /\ \E faults \in WriteFaults(request.memory_type) :
         LET w == Write(Db(qdrant, postgres), request, approval, next_uuid + 1, faults) IN
         /\ qdrant' = w.qdrant
         /\ postgres' = w.postgres
         /\ next_uuid' = next_uuid + w.uuids
         /\ outcome' = [NoOutcome EXCEPT
                          !.op = "write", !.request = request,
                          !.approved = approval.approved,
                          !.effective_confidence =
                              Min(request.confidence, approval.confidence),
                          !.result = w.result]
    /\ UNCHANGED <<agentvars, turns>>

\* MemoryManager.write_memory_direct(request): write_without_approval
\* builds the approval itself, with the request's confidence.
WriteMemoryDirect(request) ==
    WriteMemory(request, VerifierMemoryApproval(TRUE, request.confidence))

\* MemoryManager.store_turn: one turn appended to the conversation's list.
StoreTurn(c) ==
    /\ Len(turns[c]) < MaxStoredTurns
    /\ \E ok \in BOOLEAN :
         turns' = IF ok THEN [turns EXCEPT ![c] = Append(@, Turn("user", <<"text", "none">>))]
                  ELSE turns
    /\ outcome' = [NoOutcome EXCEPT !.op = "store_turn"]
    /\ UNCHANGED <<agentvars, qdrant, postgres, next_uuid>>

\* MemoryManager.update_user_profile(memory_capture_enabled): the UPDATE
\* touches the row if there is one, then get_user_profile reads it back.
UpdateUserProfile(capture) ==
    /\ \E ok \in BOOLEAN :
         postgres' =
            IF ~ok THEN postgres
            ELSE GetUserProfile(
                    IF postgres.user_profile.exists
                    THEN [postgres EXCEPT !.user_profile = UserProfile(capture)]
                    ELSE postgres)
    /\ outcome' = [NoOutcome EXCEPT !.op = "update_user_profile"]
    /\ UNCHANGED <<agentvars, turns, qdrant, next_uuid>>

\* An update_memory that rewrites the tracked summary of an episodic log
\* as it does that of a point of the vector store.
UpdateStoreEpisodicToo(pg, metadata, k, v, id) ==
    IF metadata.store_location = "qdrant" \/ metadata.memory_type = "episodic"
    THEN TrackMemory(pg, [metadata EXCEPT !.summary = EditedSummary])
    ELSE IF metadata.memory_type = "preference"
    THEN SetPreference(pg, k, v, id)
    ELSE pg

\* update_memory's dispatch on the metadata row: a point of the vector
\* store has its metadata summary tracked again; a preference is set again
\* from "key: value" (set_preference draws a uuid4()); nothing is done for
\* an episodic log.
UpdateStore(pg, metadata, k, v, id) ==
    IF metadata.store_location = "qdrant"
    THEN TrackMemory(pg, [metadata EXCEPT !.summary = EditedSummary])
    ELSE IF metadata.memory_type = "preference"
    THEN SetPreference(pg, k, v, id)
    ELSE pg

\* What update_memory returns when no call raises: True for the two kinds
\* it updates, False at its end ("Episodic logs are immutable").
UpdateAccepted(metadata) ==
    metadata.store_location = "qdrant" \/ metadata.memory_type = "preference"

\* MemoryManager.update_memory(memory_id, update), with content; an
\* exception of a store call ends it with nothing written.
UpdateMemory(id, k, v) ==
    /\ id \in 1..next_uuid
    /\ LET rows == { r \in postgres.memory_metadata : r.id = id } IN
       IF rows = {}
       THEN /\ outcome' = [NoOutcome EXCEPT !.op = "update_memory",
                              !.result = MemoryWriteResult(FALSE, id, "not_found", FALSE)]
            /\ UNCHANGED <<postgres, next_uuid>>
       ELSE LET metadata == CHOOSE r \in rows : TRUE
                draws == IF metadata.store_location # "qdrant"
                            /\ metadata.memory_type = "preference" THEN 1 ELSE 0
            IN
            \E ok \in BOOLEAN :
              IF ~ok
              THEN /\ outcome' = [NoOutcome EXCEPT !.op = "update_memory",
                                     !.result = MemoryWriteResult(FALSE, id, "exception", FALSE)]
                   /\ UNCHANGED <<postgres, next_uuid>>
              ELSE /\ next_uuid + draws <= MaxMemories
                   /\ postgres' = UpdateStore(postgres, metadata, k, v, next_uuid + 1)
                   /\ next_uuid' = next_uuid + draws
                   /\ outcome' = [NoOutcome EXCEPT !.op = "update_memory",
                                     !.result = MemoryWriteResult(UpdateAccepted(metadata),
                                                                  id, "none", FALSE)]
    /\ UNCHANGED <<agentvars, turns, qdrant>>

\* MemoryManager.delete_memory(memory_id): the entry leaves its store, then
\* its metadata row is marked deleted; an exception ends the call there.
DeleteMemory(id) ==
    /\ id \in 1..next_uuid
    /\ LET rows == { r \in postgres.memory_metadata : r.id = id } IN
       IF rows = {}
       THEN UNCHANGED <<qdrant, postgres>>
       ELSE LET metadata == CHOOSE r \in rows : TRUE
                removed ==
                    IF metadata.memory_type = "preference"
                    THEN [postgres EXCEPT !.user_preference =
                            [key \in PrefKeys |->
                                IF @[key].id = id THEN NoPreference ELSE @[key]]]
                    ELSE postgres
            IN
            \E faults \in SUBSET {"delete", "soft_delete_memory"} :
              IF "delete" \in faults
              THEN UNCHANGED <<qdrant, postgres>>
              ELSE /\ qdrant' = IF metadata.store_location = "qdrant"
                                THEN qdrant \ {id} ELSE qdrant
                   /\ postgres' =
                        IF "soft_delete_memory" \in faults THEN removed
                        ELSE [removed EXCEPT !.memory_metadata =
                                { IF r.id = id THEN [r EXCEPT !.is_deleted = TRUE]
                                  ELSE r : r \in @ }]
    /\ outcome' = [NoOutcome EXCEPT !.op = "delete_memory"]
    /\ UNCHANGED <<agentvars, turns, next_uuid>>

\* MemoryManager.full_reset(request): not confirmed, nothing is touched;
\* confirmed, the three stores are cleared in turn, each in its own try, and
\* a flag is set after each call that did not raise.
FullReset(confirm, preserve_profile) ==
    IF ~confirm
    THEN /\ outcome' = [NoOutcome EXCEPT !.op = "full_reset",
                                         !.preserve_profile = preserve_profile]
         /\ UNCHANGED <<agentvars, turns, qdrant, postgres, next_uuid>>
    ELSE \E faults \in SUBSET {"redis", "delete_collection", "truncate"} :
         \E reached \in SUBSET Cids :
            /\ "redis" \notin faults => reached = Cids
            /\ turns' = RedisClearAll(turns, reached)
            /\ qdrant' = QdrantClearAll(qdrant, faults)
            /\ postgres' = PostgresClearAll(postgres, preserve_profile, faults)
            /\ outcome' =
                 [NoOutcome EXCEPT
                    !.op = "full_reset", !.confirm = TRUE,
                    !.preserve_profile = preserve_profile,
                    !.reset = MemoryResetResponse("redis" \notin faults, TRUE, TRUE),
                    !.cleared =
                        {"redis", "qdrant", "postgres"} \
                        ( (IF "redis" \in faults THEN {"redis"} ELSE {}) \cup
                          (IF "delete_collection" \in faults THEN {"qdrant"} ELSE {}) \cup
                          (IF "truncate" \in faults THEN {"postgres"} ELSE {}) )]
            /\ UNCHANGED <<agentvars, next_uuid>>

(***************************************************************************)
(* SpecMemory: the memory manager on its own: writes with and without the  *)
(* verifier's approval, the inspector's edits and resets, in any order.    *)
(***************************************************************************)
InitMemory ==
    Init /\ cfg.memory /\ ~cfg.llm /\ cfg.tools = "off" /\ ~cfg.rigged

NextMemory ==
    \/ \E request \in MemoryWriteRequests : WriteMemoryDirect(request)
    \/ \E c \in Cids : StoreTurn(c)
    \/ \E capture \in BOOLEAN : UpdateUserProfile(capture)
    \/ \E id \in 1..MaxMemories, k \in PrefKeys, v \in PrefValues : UpdateMemory(id, k, v)
    \/ \E id \in 1..MaxMemories : DeleteMemory(id)
    \/ \E confirm \in BOOLEAN, preserve_profile \in BOOLEAN :
          FullReset(confirm, preserve_profile)

SpecMemory == InitMemory /\ [][NextMemory]_vars

(***************************************************************************)
(* SpecWriter: the writes the pipeline asks for, each with the verifier's  *)
(* decision, while the user switches memory capture on and off.            *)
(***************************************************************************)
NextWriter ==
    \/ \E request \in MemoryWriteRequests, approval \in VerifierMemoryApprovals :
          WriteMemory(request, approval)
    \/ \E capture \in BOOLEAN : UpdateUserProfile(capture)

SpecWriter == InitMemory /\ [][NextWriter]_vars

\* The last operation was a write that one of the three gates turned down.
RejectedByGate(o) ==
    /\ o.op = "write"
    /\ o.result.error \in {"verifier_rejected", "low_confidence", "capture_disabled"}

\* C13: a write request that one of the writer's three gates rejects
\* (approval not granted, effective confidence below the threshold, memory
\* capture disabled) leaves the vector store and the durable store as they
\* were.
C13_RejectedWriteChangesNothing ==
    [][ RejectedByGate(outcome') => (qdrant' = qdrant /\ postgres' = postgres) ]_vars

\* Each gate has rejected a write while the stores held entries: here the
\* third, with a point in the vector store and its metadata row.
C13_Witness ==
    /\ RejectedByGate(outcome)
    /\ outcome.result.error = "capture_disabled"
    /\ qdrant # {}
    /\ postgres.memory_metadata # {}

\* C14: whatever the writer persists has passed the three gates at the time
\* of the write: the approval was granted, the smaller of the request's and
\* the approval's confidence is at least the threshold, and memory capture
\* is enabled in the user profile (a write changes the profile only by
\* creating it, with capture enabled).
C14_PersistedPassedAllGates ==
    (outcome.op = "write" /\ outcome.result.success) =>
        /\ outcome.approved
        /\ outcome.effective_confidence >= MIN_CONFIDENCE_THRESHOLD
        /\ postgres.user_profile.exists => postgres.user_profile.memory_capture_enabled

\* C15: every semantic entry of the vector store has exactly one metadata
\* row of the durable store with its id and the vector store as location.
C15_SemanticEntryHasOneMetadataRow ==
    \A e \in qdrant :
        Cardinality({ r \in postgres.memory_metadata :
                        r.id = e /\ r.store_location = "qdrant" }) = 1

\* The metadata rows of the preference with key k.
PreferenceRows(pg, k) ==
    { r \in pg.memory_metadata : r.memory_type = "preference" /\ r.summary[1] = k }

\* C16: a preference write whose key and value are those of a preference
\* already stored leaves the number of metadata rows of that preference as
\* it was.
C16_RepeatedUpsertAddsNoRow ==
    [][ ( /\ outcome'.op = "write"
          /\ outcome'.result.success
          /\ outcome'.request.memory_type = "preference"
          /\ postgres.user_preference[outcome'.request.key].value =
                outcome'.request.value )
        => Cardinality(PreferenceRows(postgres', outcome'.request.key)) =
           Cardinality(PreferenceRows(postgres, outcome'.request.key)) ]_vars

\* Nothing in the ephemeral store, in the vector store or in the three
\* tables clear_all truncates.
EmptySystem ==
    /\ \A c \in Cids : turns[c] = <<>>
    /\ qdrant = {}
    /\ postgres = Tables(postgres.user_profile)

\* C19: in the response of a confirmed full_reset each per-store flag is
\* true exactly when the call has cleared that store: a store flagged as
\* cleared is empty, and a store the call has cleared is flagged.
C19_FlagsReportClearing ==
    (outcome.op = "full_reset" /\ outcome.confirm) =>
        /\ outcome.reset.redis_cleared => \A c \in Cids : turns[c] = <<>>
        /\ outcome.reset.qdrant_cleared => qdrant = {}
        /\ outcome.reset.postgres_cleared => postgres = Tables(postgres.user_profile)
        /\ "redis" \in outcome.cleared => outcome.reset.redis_cleared
        /\ "qdrant" \in outcome.cleared => outcome.reset.qdrant_cleared
        /\ "postgres" \in outcome.cleared => outcome.reset.postgres_cleared

\* C20: full_reset(confirm = true, preserve_profile = true) on an empty
\* system, no store failing, returns the three flags true and leaves the
\* default profile row in the durable store.
C20_ResetOfEmptySystem ==
    [][ ( /\ EmptySystem
          /\ outcome'.op = "full_reset"
          /\ outcome'.confirm
          /\ outcome'.preserve_profile
          /\ outcome'.cleared = {"redis", "qdrant", "postgres"} )
        => /\ outcome'.reset.redis_cleared
           /\ outcome'.reset.qdrant_cleared
           /\ outcome'.reset.postgres_cleared
           /\ postgres'.user_profile = DefaultProfile ]_vars

(***************************************************************************)
(* The retrieval pipeline (memory/retrieval.py): four subqueries gathered, *)
(* each with its own token budget, and their summaries put together in a   *)
(* MemoryContext.                                                          *)
(***************************************************************************)
\* _estimate_tokens: len(text) // CHARS_PER_TOKEN
EstimateTokens(text) == text \div CHARS_PER_TOKEN

\* _truncate_to_tokens: text[: max_chars - 3] + "..."
TruncateToTokens(text, token_limit) ==
    LET max_chars == token_limit * CHARS_PER_TOKEN IN
    IF text <= max_chars THEN text ELSE max_chars

\* The loop of the three _summarize_* methods: lines are taken while the
\* characters counted so far and the next line fit in max_chars.
RECURSIVE TakeLines(_, _, _)
TakeLines(lines, total_chars, max_chars) ==
    IF lines = <<>> \/ total_chars + Head(lines) > max_chars
    THEN <<>>
    ELSE <<Head(lines)>> \o TakeLines(Tail(lines), total_chars + Head(lines), max_chars)

RECURSIVE SumLen(_)
SumLen(lines) == IF lines = <<>> THEN 0 ELSE Head(lines) + SumLen(Tail(lines))

\* "\n".join([header] + lines): one newline before each line taken.
Joined(header, lines) == header + SumLen(lines) + Len(lines)

\* turns[-5:], filtered[:3]
LastOf(seq, n) == IF Len(seq) <= n THEN seq ELSE SubSeq(seq, Len(seq) - n + 1, Len(seq))
FirstOf(seq, n) == IF Len(seq) <= n THEN seq ELSE SubSeq(seq, 1, n)

\* _summarize_turns: the header stays even when no line fits.
SummarizeTurns(lines, token_budget) ==
    Joined(TurnsHeader,
           TakeLines(LastOf(lines, 5), TurnsHeader, token_budget * CHARS_PER_TOKEN))

\* _summarize_semantic: "" when no line has been taken.
SummarizeSemantic(lines, token_budget) ==
    LET taken == TakeLines(lines, SemanticHeader, token_budget * CHARS_PER_TOKEN) IN
    IF taken = <<>> THEN 0 ELSE Joined(SemanticHeader, taken)

\* _summarize_episodic
SummarizeEpisodic(lines, token_budget) ==
    LET taken == TakeLines(FirstOf(lines, 3), EpisodicHeader,
                           token_budget * CHARS_PER_TOKEN) IN
    IF taken = <<>> THEN 0 ELSE Joined(EpisodicHeader, taken)

\* _retrieve_profile: the summary cut down to the budget.
RetrieveProfile(summary, token_budget, failed) ==
    IF token_budget <= 0 \/ failed THEN EmptySection
    ELSE IF EstimateTokens(summary) > token_budget
    THEN Section(TruncateToTokens(summary, token_budget), token_budget)
    ELSE Section(summary, EstimateTokens(summary))

\* _retrieve_session
RetrieveSession(lines, token_budget, failed) ==
    IF token_budget <= 0 \/ failed \/ lines = <<>> THEN EmptySection
    ELSE LET summary == SummarizeTurns(lines, token_budget) IN
         Section(summary, EstimateTokens(summary))

\* _retrieve_semantic with its exception let out.
RetrieveSemanticUncaught(lines, token_budget, failed) ==
    IF failed THEN RaisedSection
    ELSE IF token_budget <= 0 \/ lines = <<>> THEN EmptySection
    ELSE LET summary == SummarizeSemantic(lines, token_budget) IN
         Section(summary, EstimateTokens(summary))

\* _retrieve_semantic
RetrieveSemantic(lines, token_budget, failed) ==
    IF token_budget <= 0 \/ failed \/ lines = <<>> THEN EmptySection
    ELSE LET summary == SummarizeSemantic(lines, token_budget) IN
         Section(summary, EstimateTokens(summary))

\* _retrieve_episodic
RetrieveEpisodic(lines, token_budget, failed) ==
    IF token_budget <= 0 \/ failed \/ lines = <<>> THEN EmptySection
    ELSE LET summary == SummarizeEpisodic(lines, token_budget) IN
         Section(summary, EstimateTokens(summary))

\* MemoryRetrievalPipeline.retrieve: every subquery is given the smaller of
\* its budget and the request's limit (remaining_tokens is never reduced);
\* asyncio.gather lets the first exception out; MemoryContext validates the
\* lengths of the summaries.
Retrieve(request) ==
    LET remaining_tokens == request.token_limit
        p == RetrieveProfile(request.profile,
                             Min(PROFILE_TOKEN_BUDGET, remaining_tokens),
                             "profile" \in request.failing)
        c == RetrieveSession(request.turns,
                             Min(CONVERSATION_TOKEN_BUDGET, remaining_tokens),
                             "conversation" \in request.failing)
        sm == RetrieveSemantic(request.semantic,
                               Min(SEMANTIC_TOKEN_BUDGET, remaining_tokens),
                               "semantic" \in request.failing)
        e == RetrieveEpisodic(request.episodic,
                              Min(EPISODIC_TOKEN_BUDGET, remaining_tokens),
                              "episodic" \in request.failing)
    IN
    IF \/ p.raised \/ c.raised \/ sm.raised \/ e.raised
       \/ p.summary > SummaryMaxLength.profile
       \/ c.summary > SummaryMaxLength.conversation
       \/ sm.summary > SummaryMaxLength.semantic
       \/ e.summary > SummaryMaxLength.episodic
    THEN NoContext
    ELSE MemoryContext(p.summary, c.summary, sm.summary, e.summary,
                       p.tokens + c.tokens + sm.tokens + e.tokens)

\* MemoryManager.retrieve_context(request)
RetrieveContext(request) ==
    /\ outcome' = [NoOutcome EXCEPT !.op = "retrieve", !.retrieval = request,
                                    !.context = Retrieve(request)]
    /\ UNCHANGED <<agentvars, turns, qdrant, postgres, next_uuid>>

(***************************************************************************)
(* SpecRetrieval: one retrieval, for every request and every content of    *)
(* the stores listed above.                                                *)
(***************************************************************************)
NextRetrieval ==
    \E request \in RetrievalRequests : outcome.op = "none" /\ RetrieveContext(request)

SpecRetrieval == InitMemory /\ [][NextRetrieval]_vars

\* C17: the token estimate of the MemoryContext a retrieval returns is at
\* most the request's token_limit, for every permitted token_limit.
C17_TotalWithinTokenLimit ==
    (outcome.op = "retrieve" /\ outcome.context.returned) =>
        outcome.context.total_token_estimate <= outcome.retrieval.token_limit

\* The same request with no subquery failing.
Unfailing(request) == [request EXCEPT !.failing = {}]

NextInspector ==
    \/ \E request \in MemoryWriteRequests : WriteMemoryDirect(request)
    \/ \E id \in 1..MaxMemories, k \in PrefKeys, v \in PrefValues : UpdateMemory(id, k, v)
    \/ \E id \in 1..MaxMemories : DeleteMemory(id)

SpecInspector == InitMemory /\ [][NextInspector]_vars

\* The metadata rows of the episodic logs.
EpisodicRows(pg) == { r \in pg.memory_metadata : r.memory_type = "episodic" }

\* C21: episodic entries are immutable: an update_memory call leaves every
\* episodic log and its tracked summary as they were, and a call on the id
\* of an episodic entry returns False and changes nothing in any store.
C21_EpisodicImmutable ==
    [][ outcome'.op = "update_memory" =>
          /\ postgres'.episodic_log = postgres.episodic_log
          /\ EpisodicRows(postgres') = EpisodicRows(postgres)
          /\ \A r \in EpisodicRows(postgres) :
                r.id = outcome'.result.memory_id =>
                    /\ ~outcome'.result.success
                    /\ postgres' = postgres
                    /\ qdrant' = qdrant ]_vars

\* An update of an episodic entry has gone through the dispatch (no call
\* raised) and has been turned down.
C21_Witness ==
    /\ outcome.op = "update_memory"
    /\ outcome.result.error = "none"
    /\ ~outcome.result.success
    /\ outcome.result.memory_id \in postgres.episodic_log
    /\ \E r \in EpisodicRows(postgres) : r.id = outcome.result.memory_id

(***************************************************************************)
(* Manifest lifecycle.                                                     *)
(***************************************************************************)
\* C22: a manifest that comes into existence (local import, remote
\* descriptor ingestion; discovery creates none) has status
\* pending_approval, and a manifest's status becomes approved only in a step
\* of the operator's /tool approve command.
C22_CreatedPendingApprovedByOperator ==
    [][ \A tl \in Tools :
          /\ manifests[tl] = Absent /\ manifests'[tl] # Absent
                => manifests'[tl] = "pending_approval"
          /\ manifests'[tl] = "approved" /\ manifests[tl] # "approved"
                => ApproveTool(tl) ]_vars

C22_Witness ==
    \E tl \in Tools :
        /\ manifests[tl] = "approved"
        /\ tl \in available_tools
        /\ call.pc = "done"

\* ToolStatus transitions of the manifest lifecycle
AllowedTransitions ==
    {<<"pending_approval", "approved">>, <<"approved", "active">>,
     <<"approved", "disabled">>, <<"disabled", "approved">>}
        \cup { <<s, "revoked">> : s \in ManifestStatuses }

\* C23: the status of an existing manifest changes only along
\* pending_approval -> approved, approved -> active, approved <-> disabled
\* and any status -> revoked.
C23_OnlyAllowedTransitions ==
    [][ \A tl \in Tools :
          manifests[tl] # Absent /\ manifests'[tl] # manifests[tl]
              => <<manifests[tl], manifests'[tl]>> \in AllowedTransitions ]_vars

(***************************************************************************)
(* The sandbox manager (tools/sandbox.py) and the execution log            *)
(* (tools/repository.py).  execute_tool blocks in container.wait() and     *)
(* commits the log row at each repository call, so the call is modelled    *)
(* by the steps between those points.                                       *)
(***************************************************************************)
ExecutionStatuses == {"running", "success", "failure", "timeout", "cancelled"}
TerminalStatuses == ExecutionStatuses \ {"running"}

\* the row create_tool_execution inserts
CreateToolExecution(now) ==
    [status |-> "running", started_at |-> now, completed_at |-> Null,
     duration_ms |-> Null, exit_code |-> Null, error_message |-> "none",
     container_id |-> Null]

ToolExecutionUpdate(completed, duration, st, err, code, cid) ==
    [completed_at |-> completed, duration_ms |-> duration, status |-> st,
     error_message |-> err, exit_code |-> code, container_id |-> cid]

\* update_tool_execution: SET of the fields of the update that are not None
UpdateToolExecution(row, update) ==
    [row EXCEPT
        !.completed_at = IF update.completed_at # Null THEN update.completed_at ELSE @,
        !.duration_ms = IF update.duration_ms # Null THEN update.duration_ms ELSE @,
        !.status = IF update.status # "none" THEN update.status ELSE @,
        !.error_message = IF update.error_message # "none" THEN update.error_message ELSE @,
        !.exit_code = IF update.exit_code # Null THEN update.exit_code ELSE @,
        !.container_id = IF update.container_id # Null THEN update.container_id ELSE @]

\* An except branch that records the time and the message only.
ErrorUpdateNoStatus(now) == ToolExecutionUpdate(now, Null, "none", "raised", Null, Null)

\* the update of the except branch of execute_tool
ErrorUpdate(now) == ToolExecutionUpdate(now, Null, "failure", "raised", Null, Null)

\* the update of the try branch of execute_tool
CompletionUpdate(end_time, start_time, code, cid) ==
    ToolExecutionUpdate(end_time, end_time - start_time,
                        IF code = 0 THEN "success" ELSE "failure",
                        IF code = 0 THEN "none" ELSE "exit_code", code, cid)

Container(state, code) == [state |-> state, exit_code |-> code]

\* execute_tool up to container.wait(): the log row, the container
\* configuration, the container.  fault: what raises; elapsed: the time the
\* calls before the next reading of the clock take.
StartExecution(fault, elapsed) ==
    /\ execution.pc = "idle"
    /\ Len(tool_execution_log) < MaxExecutions
    /\ clock + elapsed <= MaxClock
    /\ clock' = clock + elapsed
    /\ LET row == CreateToolExecution(clock)
           id == Len(tool_execution_log) + 1 IN
       IF fault = "none"
       THEN /\ tool_execution_log' = Append(tool_execution_log, row)
            /\ docker' = Append(docker, Container("running", Null))
            /\ execution' = [pc |-> "wait", id |-> id, start_time |-> clock + elapsed]
       ELSE /\ tool_execution_log' =
                  Append(tool_execution_log,
                         UpdateToolExecution(row, ErrorUpdate(clock + elapsed)))
            /\ docker' = Append(docker, Container("none", Null))
            /\ execution' = IdleSandbox
    /\ UNCHANGED <<memvars, callvars, cfg, pending_clarifications, conversations, turns,
                   manifests, available_tools, containers, task, requests,
                   container_config, tool_volume>>

\* the tool's process ends
ContainerExit(code) ==
    /\ execution.pc = "wait"
    /\ docker[execution.id].state = "running"
    /\ docker' = [docker EXCEPT ![execution.id] = Container("exited", code)]
    /\ UNCHANGED <<memvars, callvars, cfg, pending_clarifications, conversations, turns,
                   manifests, available_tools, containers, task, requests,
                   tool_execution_log, clock, execution, container_config, tool_volume>>

Tick ==
    /\ clock < MaxClock
    /\ clock' = clock + 1
    /\ UNCHANGED <<memvars, callvars, cfg, pending_clarifications, conversations, turns,
                   manifests, available_tools, containers, task, requests,
                   tool_execution_log, docker, execution, container_config, tool_volume>>

\* execute_tool from the return of container.wait() to the update of the
\* log row; when logs() or stats() raises, the except branch writes the row.
RecordCompletion(fault, elapsed) ==
    /\ execution.pc = "wait"
    /\ docker[execution.id].state = "exited"
    /\ clock + elapsed <= MaxClock
    /\ clock' = clock + elapsed
    /\ LET id == execution.id
           row == tool_execution_log[id] IN
       IF fault = "none"
       THEN /\ elapsed = 0
            /\ tool_execution_log' =
                  [tool_execution_log EXCEPT ![id] =
                      UpdateToolExecution(row,
                          CompletionUpdate(clock, execution.start_time,
                                           docker[id].exit_code, id))]
            /\ execution' = [execution EXCEPT !.pc = "remove"]
       ELSE /\ tool_execution_log' =
                  [tool_execution_log EXCEPT ![id] =
                      UpdateToolExecution(row, ErrorUpdate(clock + elapsed))]
            /\ execution' = IdleSandbox
    /\ UNCHANGED <<memvars, callvars, cfg, pending_clarifications, conversations, turns,
                   manifests, available_tools, containers, task, requests, docker,
                   container_config, tool_volume>>

\* execute_tool from container.remove(force=True) on: the result is
\* returned, or remove raises and the except branch writes the row again.
RemoveContainer(fault, elapsed) ==
    /\ execution.pc = "remove"
    /\ clock + elapsed <= MaxClock
    /\ clock' = clock + elapsed
    /\ LET id == execution.id IN
       IF fault = "none"
       THEN /\ elapsed = 0
            /\ docker' = [docker EXCEPT ![id].state = "removed"]
            /\ UNCHANGED tool_execution_log
       ELSE /\ tool_execution_log' =
                  [tool_execution_log EXCEPT ![id] =
                      UpdateToolExecution(@, ErrorUpdate(clock + elapsed))]
            /\ UNCHANGED docker
    /\ execution' = IdleSandbox
    /\ UNCHANGED <<memvars, callvars, cfg, pending_clarifications, conversations, turns,
                   manifests, available_tools, containers, task, requests,
                   container_config, tool_volume>>

Elapsed == {0, 1}
ExitCodes == {0, 1}

InitSandbox ==
    Init /\ cfg.tools = "on" /\ cfg.llm /\ ~cfg.memory /\ ~cfg.rigged

NextSandbox ==
    \/ \E fault \in {"none", "build", "run"}, elapsed \in Elapsed :
           StartExecution(fault, elapsed)
    \/ \E code \in ExitCodes : ContainerExit(code)
    \/ Tick
    \/ \E fault \in {"none", "logs"}, elapsed \in Elapsed :
           RecordCompletion(fault, elapsed)
    \/ \E fault \in {"none", "remove"}, elapsed \in Elapsed :
           RemoveContainer(fault, elapsed)

SpecSandbox == InitSandbox /\ [][NextSandbox]_vars

\* The clock advances and the manager's own steps are taken; nothing makes
\* a container exit.
SpecSandboxFair ==
    /\ SpecSandbox
    /\ WF_vars(Tick)
    /\ WF_vars(\E fault \in {"none", "logs"}, elapsed \in Elapsed :
                   RecordCompletion(fault, elapsed))
    /\ WF_vars(\E fault \in {"none", "remove"}, elapsed \in Elapsed :
                   RemoveContainer(fault, elapsed))

\* C24: an execution log is created with status running, and a log whose
\* status is terminal is changed by no later step (so it moves from running
\* to a terminal status at most once).
C24_TerminalLogFrozen ==
    [][ /\ \A i \in DOMAIN tool_execution_log :
              tool_execution_log[i].status \in TerminalStatuses
                  => tool_execution_log'[i] = tool_execution_log[i]
        /\ \A i \in DOMAIN tool_execution_log' \ DOMAIN tool_execution_log :
              tool_execution_log'[i].status = "running"
                  \/ execution'.pc = "idle" ]_vars

\* C25: every execution log with a terminal status has an end timestamp not
\* earlier than its start timestamp and a duration equal to the end
\* timestamp minus the start timestamp.
C25_TerminalLogTimes ==
    \A i \in DOMAIN tool_execution_log :
        LET row == tool_execution_log[i] IN
        row.status \in TerminalStatuses =>
            /\ row.completed_at # Null
            /\ row.completed_at >= row.started_at
            /\ row.duration_ms = row.completed_at - row.started_at

Overdue(i) ==
    /\ execution.pc = "wait" /\ execution.id = i
    /\ docker[i].state = "running"
    /\ clock - execution.start_time >= ExecutionTimeout

TimedOut(i) ==
    /\ i \in DOMAIN tool_execution_log
    /\ docker[i].state = "killed"
    /\ tool_execution_log[i].status = "timeout"

\* C26: a container that has not exited when the manifest's timeout has
\* elapsed is eventually killed, and the log of its execution ends with
\* status timeout.
C26_TimeoutKills ==
    \A i \in 1..MaxExecutions : Overdue(i) ~> TimedOut(i)

(***************************************************************************)
(* The container configuration (sandbox.py, _build_container_config).      *)
(***************************************************************************)
\* {p.permission_type: p.permission_value for p in permissions}: a later
\* row of a type replaces an earlier one
RECURSIVE PermissionMap(_)
PermissionMap(permissions) ==
    IF permissions = <<>> THEN <<>>
    ELSE LET n == Len(permissions)
             head == PermissionMap(SubSeq(permissions, 1, n - 1))
             last == permissions[n] IN
         [t \in DOMAIN head \cup {last.permission_type} |->
             IF t = last.permission_type THEN last.permission_value ELSE head[t]]

\* permission_map.get(key, default)
Get(map, key, default) == IF key \in DOMAIN map THEN map[key] ELSE default

\* int() of the values the console writes
ParseInt(str) ==
    CASE str = "50" -> 50
      [] str = "100" -> 100
      [] str = "512" -> 512

\* a network mode of bridge for any internet_access row
NetworkModeAnyValue(permission_map) ==
    IF "internet_access" \in DOMAIN permission_map THEN "bridge" ELSE "none"

NetworkMode(permission_map) ==
    IF Get(permission_map, "internet_access", "absent") = "true"
    THEN "bridge" ELSE "none"

BuildConfig(manifest, permissions) ==
    LET permission_map == PermissionMap(permissions)
        cpu_limit == ParseInt(Get(permission_map, "cpu_limit", "50"))
        memory_limit == ParseInt(Get(permission_map, "memory_limit", "512")) IN
    ContainerConfig(BaseImage, PlaceholderCommand, NetworkMode(permission_map),
                    (cpu_limit * 100000) \div 100, memory_limit)

BuildContainerConfig(manifest, permissions) ==
    /\ ~container_config.built
    /\ container_config' =
          [built |-> TRUE, manifest |-> manifest, permissions |-> permissions,
           config |-> BuildConfig(manifest, permissions)]
    /\ UNCHANGED <<memvars, callvars, cfg, pending_clarifications, conversations, turns,
                   manifests, available_tools, containers, task, requests,
                   tool_execution_log, docker, clock, execution, tool_volume>>

NextContainerConfig ==
    \E manifest \in ExecutionConfigs, permissions \in PermissionLists :
        BuildContainerConfig(manifest, permissions)

SpecContainerConfig == InitSandbox /\ [][NextContainerConfig]_vars

HoldsInternetAccess(permissions) ==
    \E i \in DOMAIN permissions :
        /\ permissions[i].permission_type = "internet_access"
        /\ permissions[i].permission_value = "true"

\* C27: the configuration built for an invocation has network mode bridge
\* when the manifest's permissions hold internet_access with value true,
\* and network mode none otherwise.
C27_NetworkNoneUnlessInternetAccess ==
    container_config.built =>
        container_config.config.network_mode =
            IF HoldsInternetAccess(container_config.permissions)
            THEN "bridge" ELSE "none"

C27_Witness ==
    /\ container_config.built
    /\ HoldsInternetAccess(container_config.permissions)
    /\ Len(container_config.permissions) = 3
    /\ container_config.config.network_mode = "bridge"

\* shlex.split of a string entrypoint: its words
Split(text) == SelectSeq(text, LAMBDA w : w # " ")

\* C28: the configuration uses the manifest's image, and the manifest's
\* entrypoint as the command (the words of a string, a list as it is); the
\* base image and the placeholder command are used only when the manifest
\* has no execution config.
C28_UsesManifestExecutionConfig ==
    container_config.built =>
        LET manifest == container_config.manifest
            config == container_config.config IN
        /\ manifest.docker_image # NoImage => config.image = manifest.docker_image
        /\ manifest.docker_entrypoint.kind = "string"
              => config.command = Split(manifest.docker_entrypoint.text)
        /\ manifest.docker_entrypoint.kind = "list"
              => config.command = manifest.docker_entrypoint.text
        /\ config.image = BaseImage => manifest.docker_image = NoImage
        /\ config.command = PlaceholderCommand
              => manifest.docker_entrypoint = NoEntrypoint

(***************************************************************************)
(* The intent agent and the planner, called on one utterance               *)
(* (agents/intent.py interpret, agents/planner.py create_plan).            *)
(***************************************************************************)
Utterances == Messages \cup {NoMessage}

\* IntentInterpreterAgent.interpret
Interpretations(m) == IF cfg.llm THEN LLMIntents(m) ELSE {HeuristicIntent(m)}

\* PlannerAgent.create_plan
CreatedPlans(intent) ==
    IF cfg.llm THEN LLMPlans ELSE {HeuristicPlan(intent, available_tools)}

InterpretAndPlan(m) ==
    /\ ~utterance.done
    /\ \E intent \in Interpretations(m) : \E plan \in CreatedPlans(intent) :
          utterance' = [done |-> TRUE, message |-> m, intent |-> intent,
                        plan |-> plan]
    /\ UNCHANGED <<memvars, sandboxvars, cfg, pending_clarifications,
                   conversations, turns, manifests, available_tools,
                   containers, task, requests, vector_read, plan_run>>

InitUtterance == Init /\ cfg.tools = "off" /\ ~cfg.memory /\ ~cfg.rigged

NextUtterance == \E m \in Utterances : InterpretAndPlan(m)

SpecUtterance == InitUtterance /\ [][NextUtterance]_vars

\* C29: for the empty utterance the intent agent returns an intent of type
\* unknown and the planner returns a plan with a clarification step.
C29_EmptyUtteranceUnknown ==
    utterance.done /\ utterance.message = NoMessage =>
        /\ utterance.intent.type = "unknown"
        /\ HasClarificationStep(utterance.plan)

(***************************************************************************)
(* Reads of the vector store (memory/qdrant_repository.py).  A point is    *)
(* undecryptable when EncryptionService.decrypt raises on its summary      *)
(* (wrong key, damaged ciphertext).                                        *)
(***************************************************************************)
\* QdrantRepository.search: the points the query returns are decrypted one
\* by one inside try/except Exception, which logs a warning and goes on.
Search(hits, undecryptable) ==
    /\ hits \subseteq qdrant /\ undecryptable \subseteq qdrant
    /\ vector_read' = Read("search", hits, undecryptable, hits \ undecryptable, "none")
    /\ UNCHANGED <<memvars, sandboxvars, cfg, pending_clarifications,
                   conversations, turns, manifests, available_tools,
                   containers, task, requests, utterance, plan_run>>

\* QdrantRepository.list_all: the same loop over the scrolled records
ListAll(undecryptable) ==
    /\ undecryptable \subseteq qdrant
    /\ vector_read' = Read("list_all", qdrant, undecryptable, qdrant \ undecryptable, "none")
    /\ UNCHANGED <<memvars, sandboxvars, cfg, pending_clarifications,
                   conversations, turns, manifests, available_tools,
                   containers, task, requests, utterance, plan_run>>

\* QdrantRepository.get: decrypt is called outside any try, its
\* EncryptionError reaches the caller
GetPoint(id, undecryptable) ==
    /\ undecryptable \subseteq qdrant
    /\ vector_read' = IF id \notin qdrant THEN Read("get", {}, undecryptable, {}, "none")
               ELSE IF id \in undecryptable
               THEN Read("get", {id}, undecryptable, {}, "EncryptionError")
               ELSE Read("get", {id}, undecryptable, {id}, "none")
    /\ UNCHANGED <<memvars, sandboxvars, cfg, pending_clarifications,
                   conversations, turns, manifests, available_tools,
                   containers, task, requests, utterance, plan_run>>

NextReads ==
    \/ \E request \in MemoryWriteRequests : WriteMemoryDirect(request)
    \/ \E hits, undecryptable \in SUBSET qdrant : Search(hits, undecryptable)
    \/ \E undecryptable \in SUBSET qdrant : ListAll(undecryptable)
    \/ \E id \in 1..MaxMemories, undecryptable \in SUBSET qdrant :
           GetPoint(id, undecryptable)

SpecReads == InitMemory /\ [][NextReads]_vars

\* C30: a read during which a stored record cannot be decrypted ends with
\* an error; it never returns normally without that record.
C30_DecryptFailureSurfaced ==
    vector_read.op # "none" /\ vector_read.hits \cap vector_read.undecryptable # {}
        => vector_read.error # "none"

(***************************************************************************)
(* The correction loop.                                                    *)
(***************************************************************************)
\* C31: the correction loop goes on only after a verification that reports
\* requires_correction; when the verifier has answered twice and its last
\* answer is requires_correction = false (the first was true, or there
\* would be no second), the executor has been invoked exactly twice, in
\* every later state of the call as well.
C31_CorrectionStopsOnAccept ==
    /\ call.pc = "corr_exec" => call.verification.requires_correction
    /\ ( /\ Count(call.trace, "verify") = 2
         /\ ~call.verification.requires_correction )
           => Count(call.trace, "exec") = 2

C31_Witness ==
    /\ Done
    /\ Count(call.trace, "verify") = 2
    /\ ~call.verification.requires_correction
    /\ Count(call.trace, "exec") = 2
    /\ call.error = "none"

(***************************************************************************)
(* Compensation of a failed semantic write.                                *)
(***************************************************************************)
\* C32: a semantic write that fails (the metadata insert raising after the
\* point has been stored included) leaves no new entry in the vector store.
C32_FailedSemanticWriteCompensated ==
    [][ ( /\ outcome'.op = "write"
          /\ outcome'.request.memory_type = "semantic"
          /\ ~outcome'.result.success )
            => qdrant' = qdrant ]_vars

(***************************************************************************)
(* The executor called on a plan (agents/executor.py, execute).            *)
(***************************************************************************)
ExecutedPlans ==
    { Plan(steps, TRUE, TRUE) :
        steps \in UNION { [1..n -> StepChoices] : n \in 0..MaxExecutedSteps } }

RunPlan(plan) ==
    /\ ~plan_run.done
    /\ \E ex \in Execute(plan, cfg, manifests) :
          /\ plan_run' = [done |-> TRUE, steps |-> plan.steps, result |-> ex]
          /\ containers' = containers \cup ex.runs
    /\ UNCHANGED <<memvars, sandboxvars, cfg, pending_clarifications,
                   conversations, turns, manifests, available_tools, task,
                   requests, utterance, vector_read>>

NextExecutor ==
    \/ \E tl \in Tools : ~plan_run.done /\ ImportTool(tl)
    \/ \E tl \in Tools : ~plan_run.done /\ ApproveTool(tl)
    \/ \E plan \in ExecutedPlans : RunPlan(plan)

SpecExecutor == InitTools /\ [][NextExecutor]_vars

\* C33: the executor attempts the steps in index order and stops at the
\* first step that fails: every attempted step but the last has succeeded,
\* the result is unsuccessful exactly when the last attempted step failed,
\* and a successful result has attempted every step.
C33_StopsAtFirstFailure ==
    plan_run.done =>
        LET results == plan_run.result.step_results
            n == Len(results) IN
        /\ n <= Len(plan_run.steps)
        /\ \A k \in 1..n : results[k].step_index = k
        /\ \A k \in 1..(n - 1) : results[k].success
        /\ plan_run.result.success
              <=> (n = Len(plan_run.steps) /\ \A k \in 1..n : results[k].success)
        /\ ~plan_run.result.success => (n >= 1 /\ ~results[n].success)

C33_Witness ==
    /\ plan_run.done
    /\ Len(plan_run.steps) = 3
    /\ Len(plan_run.result.step_results) = 2
    /\ plan_run.result.step_results[1].success
    /\ ~plan_run.result.step_results[2].success
    /\ ~plan_run.result.success

(***************************************************************************)
(* The retrieval task at the return of process_message.                    *)
(***************************************************************************)
\* C35: no process_message call returns while the retrieval task it has
\* started is still running.
C35_RetrievalAwaitedBeforeReturn ==
    \A p \in Tasks : task[p].pc = "done" => task[p].retrieval # "running"

(***************************************************************************)
(* The turns a call leaves in short-term memory.                           *)
(***************************************************************************)
\* C38: with turn writes that succeed and one request after another, a
\* process_message call that returns has appended exactly one user turn
\* and then exactly one assistant turn, which holds the returned response.
C38_OneTurnPairPerCall ==
    ( /\ Done
      /\ cfg.memory
      /\ call.absorbed \cap {"user_write", "assistant_write"} = {} ) =>
        LET ts == turns[call.conversation_id]
            n == Len(ts) IN
        /\ Count(call.trace, "user_write") = 1
        /\ Count(call.trace, "assistant_write") = 1
        /\ n >= 2
        /\ ts[n - 1].role = "user"
        /\ ts[n].role = "assistant"
        /\ ts[n].content = call.result.response

(***************************************************************************)
(* The recursion of a clarification reply.                                 *)
(***************************************************************************)
\* The chat endpoint with a memory manager and a model provider: two
\* requests for one conversation, each its own process_message invocation,
\* interleave at their awaits (the caller's request arrives first); an
\* earlier call has left a pending clarification behind.
ChatCid == CHOOSE c \in Cids : TRUE
ChatMessage == CHOOSE m \in Messages : ~m.hasGreeting /\ m.hasToolKeyword

InitChat ==
    /\ InitCall /\ cfg.memory /\ cfg.llm /\ ~cfg.rigged
    /\ pending_clarifications = {ChatCid}

NextChat ==
    \E p \in Tasks :
        \/ /\ p # Caller => InFlight(Caller)
           /\ ProcessMessage(p, ChatMessage, ChatCid)
        \/ StoreUserTurn(p)
        \/ Interpret(p)
        \/ RetrievalFinish(p)
        \/ AwaitMemory(p)
        \/ FastPath(p)
        \/ FastStore(p)
        \/ CreatePlan(p)
        \/ ExecutePlan(p)

SpecChat == InitChat /\ [][NextChat]_vars

\* C40: handling a clarification reply re-enters process_message at most
\* once per user message: the nested call finds no pending clarification
\* for its conversation id.
C40_ReentersAtMostOnce == \A p \in Tasks : task[p].depth <= 1

(***************************************************************************)
(* The executor in every wiring: the console sets a sandbox manager when   *)
(* the tool subsystem and Docker are up, the API server never does.        *)
(***************************************************************************)
InitExecutorWired == Init /\ ~cfg.memory /\ ~cfg.rigged

SpecExecutorWired == InitExecutorWired /\ [][NextExecutor]_vars

\* C39: a tool_execution step is reported as successful only if the tool
\* was run in the sandbox (a container was started for it); without a
\* sandbox the step is not reported as a success.
C39_ToolSuccessRanInSandbox ==
    plan_run.done =>
        \A k \in 1..Len(plan_run.result.step_results) :
            ( /\ plan_run.steps[k].type = "tool_execution"
              /\ plan_run.result.step_results[k].success )
                => \E r \in plan_run.result.runs :
                      r.tool = plan_run.steps[k].tool_name

(***************************************************************************)
(* The end of a tool invocation.                                           *)
(***************************************************************************)
\* the invocation that created log i has returned or raised
Ended(i) == i \in DOMAIN tool_execution_log /\ execution.id # i

\* C34: every container started by a tool invocation has been removed by
\* the time the invocation ends, normally or with an error.
C34_ContainerRemovedAtEnd ==
    \A i \in DOMAIN docker :
        Ended(i) => docker[i].state \in {"none", "removed"}

ListToolVolumes(p) ==
    /\ tool_volume.pc[p] = "idle"
    /\ tool_volume.calls < MaxVolumeCalls
    /\ tool_volume' =
          [tool_volume EXCEPT
              !.calls = @ + 1,
              !.pc[p] = IF tool_volume.rows = 0 THEN "create" ELSE "mount"]
    /\ UNCHANGED <<memvars, callvars, cfg, pending_clarifications,
                   conversations, turns, manifests, available_tools,
                   containers, task, requests, tool_execution_log, docker,
                   clock, execution, container_config>>

\* if not volumes: volumes.create, create_tool_volume (a DockerException
\* is logged and no mount is returned; another exception reaches the
\* caller); then the mount is returned.
CreateOrMount(p, fault) ==
    /\ tool_volume.pc[p] \in {"create", "mount"}
    /\ tool_volume.pc[p] = "mount" => fault = "none"
    /\ tool_volume' =
          IF tool_volume.pc[p] = "mount"
          THEN [tool_volume EXCEPT !.mounts = @ + 1, !.pc[p] = "idle"]
          ELSE CASE fault = "none" ->
                      [tool_volume EXCEPT !.docker_volume = TRUE, !.rows = @ + 1,
                                          !.mounts = @ + 1, !.pc[p] = "idle"]
                 [] fault = "DockerException" ->
                      [tool_volume EXCEPT !.pc[p] = "idle"]
                 [] fault = "create_tool_volume" ->
                      [tool_volume EXCEPT !.docker_volume = TRUE, !.pc[p] = "idle"]
    /\ UNCHANGED <<memvars, callvars, cfg, pending_clarifications,
                   conversations, turns, manifests, available_tools,
                   containers, task, requests, tool_execution_log, docker,
                   clock, execution, container_config>>

NextVolume ==
    \E p \in Tasks :
        \/ ListToolVolumes(p)
        \/ \E fault \in {"none", "DockerException", "create_tool_volume"} :
               CreateOrMount(p, fault)

SpecVolume == InitSandbox /\ [][NextVolume]_vars

\* C36: the tool's volume is created once and reused: there is never more
\* than one volume record for the tool, and once an invocation has been
\* given the mount there is exactly one.
C36_OneVolumeRecord ==
    /\ tool_volume.rows <= 1
    /\ tool_volume.mounts > 0 => tool_volume.rows = 1

TypeOK ==
    /\ cfg \in Configs
    /\ pending_clarifications \subseteq Cids
    /\ requests \in 0..MaxRequests

=============================================================================
